---- MODULE Spec2Model ----
(***************************************************************************)
(* QA Auditor Flow (crewnecta_qa_flow/flow/qa_auditor_flow.py): the staged *)
(* pipeline over one shared QAAuditorState, with the Analysis Service as   *)
(* a nondeterministic collaborator.                                        *)
(*                                                                         *)
(* Encoding.  risk_score is kept in tenths (5 is 0.5), QA scores are the   *)
(* integers 0..100.  A str field is a string; a missing key of a parsed    *)
(* record is Absent (strings), AbsentNum (numbers) or AbsentList (lists).  *)
(* A text (a report) is the sequence of its lines, "" being <<>>.  A str    *)
(* whose letters matter (compliance_severity as the service wrote it) is   *)
(* the sequence of its characters.                                         *)
(***************************************************************************)
EXTENDS Integers, Sequences, FiniteSets, TLC

VARIABLES
    initial_state,  \* QAAuditorFlow.initial_state, set by the caller before kickoff
    state,          \* self.state, the QAAuditorState of the run
    pc,             \* position of the main listener chain
    idx,            \* 1-based position of the running for-loop
    route_label,    \* label returned by the router ("" before it ran)
    escalation,     \* handle_compliance_escalation: "idle", "triggered" or "done"
    executed,       \* history: how many times each stage method was entered
    last_call,      \* history: the Analysis Service call made by the last step
    pre_route,      \* history: the decision fields as the router found them
    arg,            \* the value under test of a specification of one function
    ret             \* what that function made of it

vars == <<initial_state, state, pc, idx, route_label, escalation, executed,
          last_call, pre_route, arg, ret>>

----------------------------------------------------------------------------
(* Bounds of the model *)

MaxTranscripts == 2
\* transcripts supplied together with a prepopulated state
MaxSeededTranscripts == 1
\* tokens of prose on each side of a structured block
MaxProse == 2
\* sentences of a transcript given to a tool
MaxSegments == 2
\* evaluations carried over from an earlier audit
MaxSeededEvaluations == 2

----------------------------------------------------------------------------
(* Values *)

Absent == "<absent>"
AbsentNum == 0 - 1
AbsentList == <<"<absent>">>
\* an element of a JSON list that is itself a list or an object (unhashable)
Unhashable == "<object>"

InteractionIds == {"T1", "T2"}
AgentIds == {"A1", "A2"}

\* state/models.py InteractionTranscript (the fields the flow branches on)
Transcript(id, agent, name) ==
    [interaction_id |-> id, agent_id |-> agent, agent_name |-> name]

TranscriptUniverse ==
    { Transcript("T1", "A1", "Ann"),
      Transcript("T2", "A1", "Anna") }

RECURSIVE SeqsUpTo(_, _)
SeqsUpTo(S, n) ==
    IF n = 0 THEN {<<>>}
    ELSE LET shorter == SeqsUpTo(S, n - 1)
         IN  shorter \cup {Append(s, x) : s \in {q \in shorter : Len(q) = n - 1}, x \in S}

TranscriptInputs == SeqsUpTo(TranscriptUniverse, MaxTranscripts)

\* ComplianceSeverity
CRITICAL == "critical"
MAJOR == "major"
MINOR == "minor"
NONE == "none"
ComplianceSeverity == {CRITICAL, MAJOR, MINOR, NONE}

EmptyDict == [k \in {} |-> 0]

\* QAAuditorState() with every field at its default
DefaultState ==
    [ raw_transcripts              |-> <<>>,
      campaign_name                |-> "",
      evaluation_period            |-> "",
      compliance_requirements      |-> <<>>,
      risk_scores                  |-> <<>>,
      qa_evaluations               |-> <<>>,
      pattern_insights             |-> <<>>,
      average_scores               |-> EmptyDict,
      has_critical_violations      |-> FALSE,
      critical_violations          |-> <<>>,
      agents_needing_coaching      |-> <<>>,
      coaching_plans               |-> <<>>,
      compliance_escalation_report |-> <<>>,
      executive_summary            |-> <<>>,
      detailed_qa_report           |-> <<>>,
      errors                       |-> <<>>,
      processing_status            |-> "pending",
      transcripts_processed        |-> 0,
      transcripts_failed           |-> 0 ]

\* RiskScore
RiskScore(id, score, factors, priority) ==
    [ interaction_id |-> id, risk_score |-> score, risk_factors |-> factors,
      priority_for_review |-> priority ]

\* QAEvaluation
QAEvaluation(id, agent, c, e, r, p, o, issues, improve, sev) ==
    [ interaction_id |-> id, agent_id |-> agent, compliance_score |-> c,
      empathy_score |-> e, resolution_score |-> r, process_adherence_score |-> p,
      overall_score |-> o, compliance_issues |-> issues,
      improvement_areas |-> improve, compliance_severity |-> sev ]

----------------------------------------------------------------------------
(* Helpers *)

Range(s) == {s[i] : i \in 1..Len(s)}

Error(msg, id) == [msg |-> msg, id |-> id]

\* dict.get(key, default) on a parsed record: a missing key reads as the default
Get(value, absent, default) == IF value = absent THEN default ELSE value

\* list.sort(key=lambda r: r.risk_score, reverse=True): stable, descending
\* an insertion that puts the new entry in front of entries of equal score
RECURSIVE InsertDesc_BeforeEquals(_, _)
InsertDesc_BeforeEquals(sorted, r) ==
    IF sorted = <<>> THEN <<r>>
    ELSE IF Head(sorted).risk_score > r.risk_score
         THEN <<Head(sorted)>> \o InsertDesc_BeforeEquals(Tail(sorted), r)
         ELSE <<r>> \o sorted

RECURSIVE InsertDesc(_, _)
InsertDesc(sorted, r) ==
    IF sorted = <<>> THEN <<r>>
    ELSE IF Head(sorted).risk_score >= r.risk_score
         THEN <<Head(sorted)>> \o InsertDesc(Tail(sorted), r)
         ELSE <<r>> \o sorted

RECURSIVE SortByRiskDesc(_)
SortByRiskDesc(s) ==
    IF s = <<>> THEN <<>>
    ELSE InsertDesc(SortByRiskDesc(SubSeq(s, 1, Len(s) - 1)), s[Len(s)])

----------------------------------------------------------------------------
(* The Analysis Service.  A call raises, returns a typed record            *)
(* (result.pydantic) or returns raw text; raw text is seen through         *)
(* _parse_json_safe, whose result is a record with any subset of keys.     *)
(* The flow only tests the truth value of `parsed`, so None and {} are the *)
(* same outcome: the record with every key absent.  The risk call tells    *)
(* the two apart by its kind: "text" is raw text in which no record is     *)
(* found (None), "raw" with every key absent is the text {}.               *)

RiskResult(kind, id, score, factors, priority) ==
    [ kind |-> kind, interaction_id |-> id, risk_score |-> score,
      risk_factors |-> factors, priority_for_review |-> priority ]

\* what RiskScoringCrew().crew().kickoff(...) can do for transcript t; the
\* priority is a str the service chooses, not only high, medium or low
RiskResults(t) ==
    { RiskResult("raise", Absent, AbsentNum, AbsentList, Absent),
      RiskResult("text", Absent, AbsentNum, AbsentList, Absent),
      RiskResult("raw", Absent, AbsentNum, AbsentList, Absent),
      RiskResult("typed", t.interaction_id, 9, <<"pci_risk">>, "high"),
      RiskResult("raw", Absent, AbsentNum, AbsentList, "low"),
      RiskResult("raw", Absent, AbsentNum, AbsentList, "critical"),
      RiskResult("raw", "T2", 2, <<>>, "medium"),
      RiskResult("raw", t.interaction_id, 15, <<>>, "high") }

\* `if parsed:` a dict is true iff it has a key
RiskParsedTruthy(res) ==
    \/ res.interaction_id # Absent
    \/ res.risk_score # AbsentNum
    \/ res.risk_factors # AbsentList
    \/ res.priority_for_review # Absent

\* RiskScore(...) built from the parsed record, before validation
RiskScoreFromParsed(res, t) ==
    RiskScore(Get(res.interaction_id, Absent, t.interaction_id),
              Get(res.risk_score, AbsentNum, 5),
              Get(res.risk_factors, AbsentList, <<>>),
              Get(res.priority_for_review, Absent, "medium"))

\* a RiskScore model without the upper bound
RiskScoreValid_NoUpperBound(r) == r.risk_score >= 0

\* Field(ge=0.0, le=1.0) of RiskScore.risk_score
RiskScoreValid(r) == r.risk_score >= 0 /\ r.risk_score <= 10

\* the try body of the stage-1 loop completes without raising
RiskCallSucceeds(res, t) ==
    /\ res.kind # "raise"
    /\ RiskParsedTruthy(res)
    /\ RiskScoreValid(RiskScoreFromParsed(res, t))

\* a variant of the except branch that also drops the factor label and raises
\* the priority
DefaultRiskScore_HighPriority(t) ==
    RiskScore(t.interaction_id, 5, <<>>, "high")

\* the except branch of stage 1: default medium risk
DefaultRiskScore(t) ==
    RiskScore(t.interaction_id, 5, <<"error_during_scoring">>, "medium")

\* one iteration of `for transcript in self.state.raw_transcripts`
ScoreTranscript(st, t, res) ==
    IF RiskCallSucceeds(res, t)
    THEN [st EXCEPT !.risk_scores = Append(@, RiskScoreFromParsed(res, t)),
                    !.transcripts_processed = @ + 1]
    ELSE [st EXCEPT !.errors = Append(@, Error("Failed to risk-score", t.interaction_id)),
                    !.transcripts_failed = @ + 1,
                    !.risk_scores = Append(@, DefaultRiskScore(t))]

----------------------------------------------------------------------------
(* Stage 2: deep_qa_analysis *)

QAResult(kind, id, agent, c, e, r, p, o, issues, improve, sev) ==
    [ kind |-> kind, interaction_id |-> id, agent_id |-> agent,
      compliance_score |-> c, empathy_score |-> e, resolution_score |-> r,
      process_adherence_score |-> p, overall_score |-> o,
      compliance_issues |-> issues, improvement_areas |-> improve,
      compliance_severity |-> sev ]

Uppercase == << "A", "B", "C", "D", "E", "F", "G", "H", "I", "J", "K", "L", "M",
               "N", "O", "P", "Q", "R", "S", "T", "U", "V", "W", "X", "Y", "Z" >>
Lowercase == << "a", "b", "c", "d", "e", "f", "g", "h", "i", "j", "k", "l", "m",
               "n", "o", "p", "q", "r", "s", "t", "u", "v", "w", "x", "y", "z" >>

\* the value of each ComplianceSeverity member, character by character
Spelled(name) ==
    CASE name = CRITICAL -> << "c", "r", "i", "t", "i", "c", "a", "l" >>
      [] name = MAJOR    -> << "m", "a", "j", "o", "r" >>
      [] name = MINOR    -> << "m", "i", "n", "o", "r" >>
      [] name = NONE     -> << "n", "o", "n", "e" >>

\* what QAAnalysisCrew().crew().kickoff(...) can do for transcript t
QAResults(t) ==
    { QAResult("raise", Absent, Absent, AbsentNum, AbsentNum, AbsentNum, AbsentNum,
               AbsentNum, AbsentList, AbsentList, AbsentList),
      QAResult("raw", Absent, Absent, AbsentNum, AbsentNum, AbsentNum, AbsentNum,
               AbsentNum, AbsentList, AbsentList, AbsentList),
      QAResult("typed", t.interaction_id, t.agent_id, 30, 60, 60, 60, 55,
               <<"card number read back">>, <<"pci training">>,
               << "C", "R", "I", "T", "I", "C", "A", "L" >>),
      QAResult("raw", Absent, Absent, AbsentNum, AbsentNum, AbsentNum, AbsentNum,
               90, AbsentList, AbsentList, << "u", "n", "k", "n", "o", "w", "n" >>),
      QAResult("raw", "T2", "A2", 70, 70, 70, 70, 65, <<"no disclosure">>, <<>>,
               << "M", "a", "j", "o", "r" >>),
      QAResult("raw", t.interaction_id, t.agent_id, 120, 60, 60, 60, 60, <<>>, <<>>,
               Spelled(CRITICAL)) }

LowerChar(c) ==
    IF \E i \in 1..Len(Uppercase) : Uppercase[i] = c
    THEN Lowercase[CHOOSE i \in 1..Len(Uppercase) : Uppercase[i] = c]
    ELSE c

\* a result that drops .lower() from the severity mapping
Lower_Identity(text) == text

\* str.lower()
Lower(text) == [i \in 1..Len(text) |-> LowerChar(text[i])]

\* ComplianceSeverity(str(parsed.get("compliance_severity", "none")).lower()),
\* ValueError mapped to NONE
SeverityOf(sev) ==
    LET sev_str == Lower(Get(sev, AbsentList, Spelled(NONE)))
    IN  IF \E name \in ComplianceSeverity : Spelled(name) = sev_str
        THEN CHOOSE name \in ComplianceSeverity : Spelled(name) = sev_str
        ELSE NONE

QAParsedTruthy(res) ==
    \/ res.interaction_id # Absent
    \/ res.agent_id # Absent
    \/ res.compliance_score # AbsentNum
    \/ res.empathy_score # AbsentNum
    \/ res.resolution_score # AbsentNum
    \/ res.process_adherence_score # AbsentNum
    \/ res.overall_score # AbsentNum
    \/ res.compliance_issues # AbsentList
    \/ res.improvement_areas # AbsentList
    \/ res.compliance_severity # AbsentList

\* QAEvaluation(...) built from the parsed record, before validation
QAEvaluationFromParsed(res, t) ==
    QAEvaluation(Get(res.interaction_id, Absent, t.interaction_id),
                 Get(res.agent_id, Absent, t.agent_id),
                 Get(res.compliance_score, AbsentNum, 50),
                 Get(res.empathy_score, AbsentNum, 50),
                 Get(res.resolution_score, AbsentNum, 50),
                 Get(res.process_adherence_score, AbsentNum, 50),
                 Get(res.overall_score, AbsentNum, 50),
                 Get(res.compliance_issues, AbsentList, <<>>),
                 Get(res.improvement_areas, AbsentList, <<>>),
                 SeverityOf(res.compliance_severity))

ScoreFields ==
    {"compliance_score", "empathy_score", "resolution_score",
     "process_adherence_score", "overall_score"}

\* Field(ge=0, le=100) of the five scores of QAEvaluation
QAEvaluationValid(e) == \A f \in ScoreFields : e[f] >= 0 /\ e[f] <= 100

QACallSucceeds(res, t) ==
    /\ res.kind # "raise"
    /\ QAParsedTruthy(res)
    /\ QAEvaluationValid(QAEvaluationFromParsed(res, t))

\* a default pass that gives 80 on every dimension
LowPriorityEvaluation_AllEighty(risk, t) ==
    QAEvaluation(risk.interaction_id, t.agent_id, 80, 80, 80, 80, 80, <<>>, <<>>, NONE)

\* the LOW priority default pass
LowPriorityEvaluation(risk, t) ==
    QAEvaluation(risk.interaction_id, t.agent_id, 85, 75, 80, 80, 80, <<>>, <<>>, NONE)

\* a degraded evaluation that scores 0 on every dimension
FailedEvaluation_ZeroScores(risk, t) ==
    QAEvaluation(risk.interaction_id, t.agent_id, 0, 0, 0, 0, 0,
                 <<"evaluation_failed">>, <<"Unable to evaluate - review manually">>, NONE)

\* the except branch of stage 2: graceful degradation
FailedEvaluation(risk, t) ==
    QAEvaluation(risk.interaction_id, t.agent_id, 50, 50, 50, 50, 50,
                 <<"evaluation_failed">>, <<"Unable to evaluate - review manually">>, NONE)

\* transcript_map = {t.interaction_id: t for t in raw_transcripts}: the last
\* transcript with an id wins; HasTranscript is `transcript_map.get(id)` being set
HasTranscript(st, id) == \E i \in 1..Len(st.raw_transcripts) :
                            st.raw_transcripts[i].interaction_id = id

TranscriptMap(st, id) ==
    LET last == CHOOSE i \in 1..Len(st.raw_transcripts) :
                   /\ st.raw_transcripts[i].interaction_id = id
                   /\ \A j \in (i + 1)..Len(st.raw_transcripts) :
                         st.raw_transcripts[j].interaction_id # id
    IN  st.raw_transcripts[last]

\* the QA service is called for this risk score
NeedsQACall(st, risk) ==
    HasTranscript(st, risk.interaction_id) /\ risk.priority_for_review # "low"

\* a loop body that skips a missing transcript without logging it
AnalyzeRisk_SkipsSilently(st, risk, res) ==
    IF ~HasTranscript(st, risk.interaction_id)
    THEN st
    ELSE LET t == TranscriptMap(st, risk.interaction_id)
         IN  IF risk.priority_for_review = "low"
             THEN [st EXCEPT !.qa_evaluations = Append(@, LowPriorityEvaluation(risk, t))]
             ELSE IF QACallSucceeds(res, t)
             THEN [st EXCEPT !.qa_evaluations = Append(@, QAEvaluationFromParsed(res, t))]
             ELSE [st EXCEPT !.errors = Append(@, Error("Failed QA analysis",
                                                        risk.interaction_id)),
                             !.qa_evaluations = Append(@, FailedEvaluation(risk, t))]

\* one iteration of `for risk in self.state.risk_scores`
AnalyzeRisk(st, risk, res) ==
    IF ~HasTranscript(st, risk.interaction_id)
    THEN [st EXCEPT !.errors = Append(@, Error("Transcript not found for QA analysis",
                                               risk.interaction_id))]
    ELSE LET t == TranscriptMap(st, risk.interaction_id)
         IN  IF risk.priority_for_review = "low"
             THEN [st EXCEPT !.qa_evaluations = Append(@, LowPriorityEvaluation(risk, t))]
             ELSE IF QACallSucceeds(res, t)
             THEN [st EXCEPT !.qa_evaluations = Append(@, QAEvaluationFromParsed(res, t))]
             ELSE [st EXCEPT !.errors = Append(@, Error("Failed QA analysis",
                                                        risk.interaction_id)),
                             !.qa_evaluations = Append(@, FailedEvaluation(risk, t))]

RECURSIVE SumOf(_, _)
SumOf(evals, f) == IF evals = <<>> THEN 0 ELSE Head(evals)[f] + SumOf(Tail(evals), f)

\* a rounding that drops what follows the first decimal
RoundTenths_Truncate(total, n) == (10 * total) \div n

\* round(total / n, 1) in tenths; a tie (only possible when 10*total/n ends in
\* .5, so total/n is a dyadic rational and exact as a float) goes to even
RoundTenths(total, n) ==
    LET q == (10 * total) \div n
        r == (10 * total) % n
    IN  IF 2 * r < n THEN q
        ELSE IF 2 * r > n THEN q + 1
        ELSE IF q % 2 = 0 THEN q ELSE q + 1

\* the average_scores dict computed after the stage-2 loop
AverageScores(evals) ==
    LET n == Len(evals)
    IN  [ compliance        |-> RoundTenths(SumOf(evals, "compliance_score"), n),
          empathy           |-> RoundTenths(SumOf(evals, "empathy_score"), n),
          resolution        |-> RoundTenths(SumOf(evals, "resolution_score"), n),
          process_adherence |-> RoundTenths(SumOf(evals, "process_adherence_score"), n),
          overall           |-> RoundTenths(SumOf(evals, "overall_score"), n) ]

----------------------------------------------------------------------------
(* Stage 3: route_by_compliance, and stage 4a: handle_compliance_escalation *)

\* a variant of the router's filter that also takes major evaluations
CriticalEvaluations_WithMajor(evals) ==
    SelectSeq(evals, LAMBDA e : e.compliance_severity \in {CRITICAL, MAJOR})

CriticalEvaluations(evals) ==
    SelectSeq(evals, LAMBDA e : e.compliance_severity = CRITICAL)

Violation(e) ==
    [interaction_id |-> e.interaction_id, agent_id |-> e.agent_id,
     issues |-> e.compliance_issues]

ViolationsOf(critical) == [i \in 1..Len(critical) |-> Violation(critical[i])]

\* a variant of the router that clears the decision fields on the standard path
RouteWrites_Reset(st) ==
    LET critical == CriticalEvaluations(st.qa_evaluations)
    IN  [st EXCEPT !.has_critical_violations = (critical # <<>>),
                   !.critical_violations = ViolationsOf(critical)]

\* the state writes of route_by_compliance
RouteWrites(st) ==
    LET critical == CriticalEvaluations(st.qa_evaluations)
    IN  IF critical # <<>>
        THEN [st EXCEPT !.has_critical_violations = TRUE,
                        !.critical_violations = ViolationsOf(critical)]
        ELSE st

\* a router that escalates a failed evaluation as well
RouteLabel_FailedEscalates(st) ==
    IF \/ CriticalEvaluations(st.qa_evaluations) # <<>>
       \/ \E i \in 1..Len(st.qa_evaluations) :
             st.qa_evaluations[i].compliance_issues = <<"evaluation_failed">>
    THEN "compliance_escalation" ELSE "standard_analysis"

\* the label route_by_compliance returns
RouteLabel(st) ==
    IF CriticalEvaluations(st.qa_evaluations) # <<>>
    THEN "compliance_escalation" ELSE "standard_analysis"

\* the escalation report: its header, one "Interaction: <id>" line per violation
\* (the line is modelled by the id it prints), its footer
EscalationReport(st) ==
    <<"URGENT COMPLIANCE ESCALATION REPORT">>
    \o [i \in 1..Len(st.critical_violations) |-> st.critical_violations[i].interaction_id]
    \o <<"ACTION REQUIRED">>

----------------------------------------------------------------------------
(* Stage 5: detect_patterns *)

\* PatternInsight (the fields the flow reads)
PatternInsight(type, agents) == [pattern_type |-> type, affected_agents |-> agents]

AbsentInsights == <<PatternInsight(Absent, <<>>)>>

PatternResult(kind, insights, agents) ==
    [kind |-> kind, insights |-> insights, agents_needing_coaching |-> agents]

\* what PatternAnalysisCrew().crew().kickoff(...) can do
PatternResults ==
    { PatternResult("raise", AbsentInsights, AbsentList),
      PatternResult("raw", AbsentInsights, AbsentList),
      PatternResult("typed", <<PatternInsight("systemic", <<"A1">>)>>, <<"A1", "A2">>),
      PatternResult("raw", AbsentInsights, <<"A2", "A2">>),
      PatternResult("raw", AbsentInsights, <<"A1", Unhashable>>) }

\* `if parsed:` PatternInsightsOutput.model_dump() always has both keys
PatternParsedTruthy(res) ==
    \/ res.kind = "typed"
    \/ res.insights # AbsentInsights
    \/ res.agents_needing_coaching # AbsentList

\* the fallback rule of the except branch
NeedsCoaching(ev) ==
    \/ ev.overall_score < 70
    \/ ev.compliance_severity \in {CRITICAL, MAJOR}

\* agents_below, a set
AgentsBelow(evals) ==
    {evals[i].agent_id : i \in {j \in 1..Len(evals) : NeedsCoaching(evals[j])}}

\* list(agents_below): the elements of the set once each, in any order
ListsOf(S) ==
    {s \in SeqsUpTo(S, Cardinality(S)) : Len(s) = Cardinality(S) /\ Range(s) = S}

\* the try body and the except branch of detect_patterns; `order` is the order
\* list(agents_below) happens to produce
\* a fallback that adds the agents to the list instead of replacing it
PatternWrites_Extends(st, res, order) ==
    IF res.kind = "raise"
    THEN [st EXCEPT !.errors = Append(@, Error("Pattern analysis failed", "")),
                    !.agents_needing_coaching = @ \o order]
    ELSE IF ~PatternParsedTruthy(res) THEN st
    ELSE [st EXCEPT
            !.pattern_insights =
                IF res.insights # AbsentInsights THEN res.insights ELSE @,
            !.agents_needing_coaching =
                IF res.agents_needing_coaching # AbsentList
                THEN res.agents_needing_coaching ELSE @]

PatternWrites(st, res, order) ==
    IF res.kind = "raise"
    THEN [st EXCEPT !.errors = Append(@, Error("Pattern analysis failed", "")),
                    !.agents_needing_coaching = order]
    ELSE IF ~PatternParsedTruthy(res) THEN st
    ELSE [st EXCEPT
            !.pattern_insights =
                IF res.insights # AbsentInsights THEN res.insights ELSE @,
            !.agents_needing_coaching =
                IF res.agents_needing_coaching # AbsentList
                THEN res.agents_needing_coaching ELSE @]

----------------------------------------------------------------------------
(* Stage 6: generate_coaching_plans *)

CoachingPlan(agent, name, performance, timeline) ==
    [agent_id |-> agent, agent_name |-> name, overall_performance |-> performance,
     follow_up_timeline |-> timeline]

CoachingResult(kind, agent, name, performance, timeline) ==
    [kind |-> kind, agent_id |-> agent, agent_name |-> name,
     overall_performance |-> performance, follow_up_timeline |-> timeline]

\* what CoachingCrew().crew().kickoff(...) can do for agent_id
CoachingResults(agent_id, agent_name) ==
    { CoachingResult("raise", Absent, Absent, Absent, Absent),
      CoachingResult("raw", Absent, Absent, Absent, Absent),
      CoachingResult("typed", agent_id, agent_name, "meets", "1 week"),
      CoachingResult("raw", Absent, Absent, "critical", Absent) }

CoachingParsedTruthy(res) ==
    \/ res.agent_id # Absent
    \/ res.agent_name # Absent
    \/ res.overall_performance # Absent
    \/ res.follow_up_timeline # Absent

CoachingCallSucceeds(res) == res.kind # "raise" /\ CoachingParsedTruthy(res)

\* agent_names[t.agent_id] = t.agent_name over raw_transcripts in order, then
\* agent_names.get(agent_id, agent_id)
AgentName(st, agent_id) ==
    LET ts == st.raw_transcripts
        hits == {i \in 1..Len(ts) : ts[i].agent_id = agent_id}
    IN  IF hits = {} THEN agent_id
        ELSE ts[CHOOSE i \in hits : \A j \in hits : j <= i].agent_name

\* agent_names.get(agent_id, agent_id) hashes its key: a list or dict raises
\* TypeError, outside the try
Hashable(agent_id) == agent_id # Unhashable

CoachingPlanFromParsed(res, agent_id, agent_name) ==
    CoachingPlan(Get(res.agent_id, Absent, agent_id),
                 Get(res.agent_name, Absent, agent_name),
                 Get(res.overall_performance, Absent, "below"),
                 Get(res.follow_up_timeline, Absent, "2 weeks"))

\* a loop body that counts a failed plan in transcripts_failed
CoachAgent_CountsFailure(st, agent_id, res) ==
    IF CoachingCallSucceeds(res)
    THEN [st EXCEPT !.coaching_plans =
             Append(@, CoachingPlanFromParsed(res, agent_id, AgentName(st, agent_id)))]
    ELSE [st EXCEPT !.errors = Append(@, Error("Failed coaching plan", agent_id)),
                    !.transcripts_failed = @ + 1]

\* one iteration of `for agent_id in self.state.agents_needing_coaching`
CoachAgent(st, agent_id, res) ==
    IF CoachingCallSucceeds(res)
    THEN [st EXCEPT !.coaching_plans =
             Append(@, CoachingPlanFromParsed(res, agent_id, AgentName(st, agent_id)))]
    ELSE [st EXCEPT !.errors = Append(@, Error("Failed coaching plan", agent_id))]

----------------------------------------------------------------------------
(* Stage 7: compile_final_report *)

Line(label, value) == [label |-> label, value |-> value]

\* avg.get(key, 'N/A')
AvgGet(avg, key) == IF key \in DOMAIN avg THEN ToString(avg[key]) ELSE "N/A"

ExecutiveSummary(st) ==
    << Line("Transcripts Analyzed", ToString(Len(st.raw_transcripts))),
       Line("Successfully Processed", ToString(st.transcripts_processed)),
       Line("Failed", ToString(st.transcripts_failed)),
       Line("Overall", AvgGet(st.average_scores, "overall")),
       Line("Compliance", AvgGet(st.average_scores, "compliance")),
       Line("Empathy", AvgGet(st.average_scores, "empathy")),
       Line("Resolution", AvgGet(st.average_scores, "resolution")),
       Line("Process Adherence", AvgGet(st.average_scores, "process_adherence")),
       Line("Critical Violations", ToString(Len(st.critical_violations))),
       Line("Escalation Required",
            IF st.has_critical_violations THEN "YES" ELSE "No"),
       Line("Agents Requiring Coaching", ToString(Len(st.coaching_plans))) >>

DetailedReport(st) ==
    ExecutiveSummary(st)
    \o [i \in 1..Len(st.risk_scores) |-> Line("risk", st.risk_scores[i].interaction_id)]
    \o [i \in 1..Len(st.qa_evaluations) |->
            Line("evaluation", st.qa_evaluations[i].interaction_id)]
    \o [i \in 1..Len(st.coaching_plans) |-> Line("plan", st.coaching_plans[i].agent_id)]

\* a final stage that hands over a state with the error list emptied
CompileWrites_ClearsErrors(st) ==
    [st EXCEPT !.executive_summary = ExecutiveSummary(st),
               !.detailed_qa_report = DetailedReport(st),
               !.errors = <<>>,
               !.processing_status = "complete"]

CompileWrites(st) ==
    [st EXCEPT !.executive_summary = ExecutiveSummary(st),
               !.detailed_qa_report = DetailedReport(st),
               !.processing_status = "complete"]

----------------------------------------------------------------------------
(* The run *)

\* a hand-built QAAuditorState whose enrichment and decision fields are already set
PrepopulatedState ==
    [DefaultState EXCEPT
        !.campaign_name = "Q1 audit",
        !.compliance_requirements = <<"PCI-DSS">>,
        !.risk_scores = <<RiskScore("T1", 7, <<>>, "high")>>,
        !.has_critical_violations = TRUE,
        !.critical_violations =
            <<[interaction_id |-> "T0", agent_id |-> "A1", issues |-> <<>>]>>,
        !.agents_needing_coaching = <<"A1">>,
        !.compliance_escalation_report = <<"previous report">>,
        !.errors = <<Error("previous error", "")>>,
        !.processing_status = "archived",
        !.transcripts_processed = 1 ]

\* the states a caller may assign to QAAuditorFlow.initial_state
InitialStates ==
    {[DefaultState EXCEPT !.raw_transcripts = ts] : ts \in TranscriptInputs}
    \cup {[PrepopulatedState EXCEPT !.raw_transcripts = ts] :
             ts \in SeqsUpTo(TranscriptUniverse, MaxSeededTranscripts)}

Stages ==
    {"ingest_and_risk_score", "deep_qa_analysis", "route_by_compliance",
     "handle_compliance_escalation", "detect_patterns", "generate_coaching_plans",
     "compile_final_report"}

\* arg and ret outside a specification of one function
NoValue == <<>>

NoCall == [stage |-> "", item |-> 0, kind |-> "", parsed |-> FALSE, ok |-> FALSE]

Call(stage, item, kind, parsed, ok) ==
    [stage |-> stage, item |-> item, kind |-> kind, parsed |-> parsed, ok |-> ok]

DecisionFields(st) ==
    [has_critical_violations |-> st.has_critical_violations,
     critical_violations |-> st.critical_violations,
     compliance_escalation_report |-> st.compliance_escalation_report]

Enter(stage) == executed' = [executed EXCEPT ![stage] = @ + 1]

Init ==
    /\ initial_state \in InitialStates
    /\ state = DefaultState
    /\ pc = "ingest_and_risk_score"
    /\ idx = 0
    /\ route_label = ""
    /\ escalation = "idle"
    /\ executed = [s \in Stages |-> 0]
    /\ last_call = NoCall
    /\ pre_route = DecisionFields(DefaultState)
    /\ arg = NoValue
    /\ ret = NoValue

\* setattr(self.state, field_name, getattr(self.initial_state, field_name))
Seeded(st, seed) == seed

\* the fields of self.state that the run changes in place (append, sort) and
\* never assigns: after seeding they are the caller's own list objects
SharedLists == {"errors", "risk_scores", "qa_evaluations", "coaching_plans"}

\* the caller's QAAuditorState object as it reads now.  The variable
\* initial_state keeps the value it had at kickoff; the seeding loop stores the
\* object's own lists in self.state, so from then on a list the run changes
\* in place reads the same through both objects
InitialStateObject ==
    IF executed["ingest_and_risk_score"] = 0 THEN initial_state
    ELSE [f \in DOMAIN initial_state |->
            IF f \in SharedLists THEN state[f] ELSE initial_state[f]]

\* a variant of the guard that logs the error but leaves the status alone
NoInput_KeepsStatus(st) ==
    [st EXCEPT !.errors = Append(@, Error("No transcripts provided for analysis", ""))]

\* the empty-input guard of stage 1
NoInput(st) ==
    [st EXCEPT !.errors = Append(@, Error("No transcripts provided for analysis", "")),
               !.processing_status = "failed_no_input"]

\* ingest_and_risk_score up to its loop
IngestBegin ==
    /\ pc = "ingest_and_risk_score"
    /\ Enter("ingest_and_risk_score")
    /\ LET seeded == Seeded(state, initial_state)
       IN  IF seeded.raw_transcripts = <<>>
           THEN /\ state' = NoInput(seeded)
                /\ pc' = "deep_qa_analysis"
                /\ idx' = 0
           ELSE /\ state' = seeded
                /\ pc' = "ingest_loop"
                /\ idx' = 1
    /\ last_call' = NoCall
    /\ UNCHANGED <<arg, ret, initial_state, route_label, escalation, pre_route>>

\* one pass of the stage-1 loop: the risk call and its try/except
IngestItem ==
    /\ pc = "ingest_loop"
    /\ LET t == state.raw_transcripts[idx]
       IN  \E res \in RiskResults(t) :
             /\ state' = ScoreTranscript(state, t, res)
             /\ last_call' = Call("risk", idx, res.kind, RiskParsedTruthy(res),
                                  RiskCallSucceeds(res, t))
    /\ idx' = idx + 1
    /\ pc' = IF idx = Len(state.raw_transcripts) THEN "ingest_sort" ELSE "ingest_loop"
    /\ UNCHANGED <<arg, ret, initial_state, route_label, escalation, executed, pre_route>>

\* the sort that ends stage 1
IngestSort ==
    /\ pc = "ingest_sort"
    /\ state' = [state EXCEPT !.risk_scores = SortByRiskDesc(@)]
    /\ pc' = "deep_qa_analysis"
    /\ idx' = 0
    /\ last_call' = NoCall
    /\ UNCHANGED <<arg, ret, initial_state, route_label, escalation, executed, pre_route>>

\* deep_qa_analysis up to its loop
DeepQABegin ==
    /\ pc = "deep_qa_analysis"
    /\ Enter("deep_qa_analysis")
    /\ IF state.risk_scores = <<>>
       THEN /\ state' = [state EXCEPT !.errors =
                           Append(@, Error("No risk scores available for QA analysis", ""))]
            /\ pc' = "route_by_compliance"
            /\ idx' = 0
       ELSE /\ state' = state
            /\ pc' = "deep_qa_loop"
            /\ idx' = 1
    /\ last_call' = NoCall
    /\ UNCHANGED <<arg, ret, initial_state, route_label, escalation, pre_route>>

\* one pass of the stage-2 loop
DeepQAItem ==
    /\ pc = "deep_qa_loop"
    /\ LET risk == state.risk_scores[idx]
       IN  IF NeedsQACall(state, risk)
           THEN LET t == TranscriptMap(state, risk.interaction_id)
                IN  \E res \in QAResults(t) :
                      /\ state' = AnalyzeRisk(state, risk, res)
                      /\ last_call' = Call("qa", idx, res.kind, QAParsedTruthy(res),
                                           QACallSucceeds(res, t))
           ELSE /\ state' = AnalyzeRisk(state, risk, CHOOSE res \in QAResults(risk) : TRUE)
                /\ last_call' = NoCall
    /\ idx' = idx + 1
    /\ pc' = IF idx = Len(state.risk_scores) THEN "deep_qa_averages" ELSE "deep_qa_loop"
    /\ UNCHANGED <<arg, ret, initial_state, route_label, escalation, executed, pre_route>>

\* the averages that end stage 2
DeepQAAverages ==
    /\ pc = "deep_qa_averages"
    /\ state' = IF state.qa_evaluations # <<>>
                THEN [state EXCEPT !.average_scores = AverageScores(state.qa_evaluations)]
                ELSE state
    /\ pc' = "route_by_compliance"
    /\ idx' = 0
    /\ last_call' = NoCall
    /\ UNCHANGED <<arg, ret, initial_state, route_label, escalation, executed, pre_route>>

\* the listeners a label starts: detect_patterns listens to both labels,
\* handle_compliance_escalation to "compliance_escalation" alone
Triggers(label) ==
    IF label = "compliance_escalation" THEN "triggered" ELSE "idle"

\* route_by_compliance; its label starts the listeners
RouteByCompliance ==
    /\ pc = "route_by_compliance"
    /\ Enter("route_by_compliance")
    /\ pre_route' = DecisionFields(state)
    /\ state' = RouteWrites(state)
    /\ route_label' = RouteLabel(state)
    /\ escalation' = Triggers(RouteLabel(state))
    /\ pc' = "detect_patterns"
    /\ last_call' = NoCall
    /\ UNCHANGED <<arg, ret, initial_state, idx>>

\* handle_compliance_escalation, a listener of its own: nothing orders it
\* against the chain that detect_patterns starts
HandleComplianceEscalation ==
    /\ escalation = "triggered"
    /\ Enter("handle_compliance_escalation")
    /\ state' = [state EXCEPT !.compliance_escalation_report = EscalationReport(state)]
    /\ escalation' = "done"
    /\ UNCHANGED <<arg, ret, initial_state, pc, idx, route_label, last_call, pre_route>>

\* detect_patterns
DetectPatterns ==
    /\ pc = "detect_patterns"
    /\ Enter("detect_patterns")
    /\ IF state.qa_evaluations = <<>>
       THEN /\ state' = [state EXCEPT !.errors =
                  Append(@, Error("No QA evaluations available for pattern analysis", ""))]
            /\ last_call' = NoCall
       ELSE \E res \in PatternResults :
            \E order \in ListsOf(AgentsBelow(state.qa_evaluations)) :
                /\ state' = PatternWrites(state, res, order)
                /\ last_call' = Call("pattern", 0, res.kind, PatternParsedTruthy(res),
                                     res.kind # "raise")
    /\ pc' = "generate_coaching_plans"
    /\ UNCHANGED <<arg, ret, initial_state, idx, route_label, escalation, pre_route>>

\* generate_coaching_plans up to its loop
CoachingBegin ==
    /\ pc = "generate_coaching_plans"
    /\ Enter("generate_coaching_plans")
    /\ IF state.agents_needing_coaching = <<>>
       THEN pc' = "compile_final_report" /\ idx' = 0
       ELSE pc' = "coaching_loop" /\ idx' = 1
    /\ last_call' = NoCall
    /\ UNCHANGED <<arg, ret, initial_state, state, route_label, escalation, pre_route>>

\* one pass of the stage-6 loop: the name lookup, then the coaching call and its
\* try/except; an unhashable entry raises out of the method
CoachingItem ==
    /\ pc = "coaching_loop"
    /\ LET agent_id == state.agents_needing_coaching[idx]
       IN  IF ~Hashable(agent_id)
           THEN /\ pc' = "raised"
                /\ idx' = idx
                /\ state' = state
                /\ last_call' = NoCall
           ELSE /\ \E res \in CoachingResults(agent_id, AgentName(state, agent_id)) :
                     /\ state' = CoachAgent(state, agent_id, res)
                     /\ last_call' = Call("coaching", idx, res.kind,
                                          CoachingParsedTruthy(res),
                                          CoachingCallSucceeds(res))
                /\ idx' = idx + 1
                /\ pc' = IF idx = Len(state.agents_needing_coaching)
                         THEN "compile_final_report" ELSE "coaching_loop"
    /\ UNCHANGED <<arg, ret, initial_state, route_label, escalation, executed, pre_route>>

\* compile_final_report
CompileFinalReport ==
    /\ pc = "compile_final_report"
    /\ Enter("compile_final_report")
    /\ state' = CompileWrites(state)
    /\ pc' = "done"
    /\ idx' = 0
    /\ last_call' = NoCall
    /\ UNCHANGED <<arg, ret, initial_state, route_label, escalation, pre_route>>

Next ==
    \/ IngestBegin
    \/ IngestItem
    \/ IngestSort
    \/ DeepQABegin
    \/ DeepQAItem
    \/ DeepQAAverages
    \/ RouteByCompliance
    \/ HandleComplianceEscalation
    \/ DetectPatterns
    \/ CoachingBegin
    \/ CoachingItem
    \/ CompileFinalReport

Spec == Init /\ [][Next]_vars

----------------------------------------------------------------------------
(* The severity mapping, one stage-2 pass per spelling of compliance_severity *)

UpperChar(c) ==
    IF \E i \in 1..Len(Lowercase) : Lowercase[i] = c
    THEN Uppercase[CHOOSE i \in 1..Len(Lowercase) : Lowercase[i] = c]
    ELSE c

\* every way of writing a word in upper and lower case letters
RECURSIVE CaseVariants(_)
CaseVariants(word) ==
    IF word = <<>> THEN {<<>>}
    ELSE {<<c>> \o rest : c \in {Head(word), UpperChar(Head(word))},
                          rest \in CaseVariants(Tail(word))}

\* what the service may write in compliance_severity (a free str): a member's
\* name in any letter case, nothing, the empty string, another word, a number
SeverityValues ==
    UNION {CaseVariants(Spelled(name)) : name \in ComplianceSeverity}
    \cup { AbsentList, <<>>,
           << "u", "n", "k", "n", "o", "w", "n" >>,
           << "c", "r", "i", "t" >>,
           << "S", "E", "V", "E", "R", "E" >>,
           << " ", "n", "o", "n", "e" >>,
           << "m", "a", "j", "o", "r", "." >>,
           << "3" >> }

\* a parsed QA result that carries the severity sev next to other fields
SeverityResult(sev) ==
    QAResult("raw", Absent, Absent, 40, AbsentNum, AbsentNum, AbsentNum, 90,
             <<"no disclosure">>, <<"listen more">>, sev)

\* stage 2 about to analyse the one high-priority risk score of one transcript
SeverityInit ==
    /\ arg \in SeverityValues
    /\ ret = NoValue
    /\ initial_state = [DefaultState EXCEPT
                           !.raw_transcripts = <<Transcript("T1", "A1", "Ann")>>]
    /\ state = [DefaultState EXCEPT
                   !.raw_transcripts = <<Transcript("T1", "A1", "Ann")>>,
                   !.risk_scores = <<RiskScore("T1", 9, <<"pci_risk">>, "high")>>,
                   !.transcripts_processed = 1]
    /\ pc = "deep_qa_loop"
    /\ idx = 1
    /\ route_label = ""
    /\ escalation = "idle"
    /\ executed = [s \in Stages |->
                     IF s \in {"ingest_and_risk_score", "deep_qa_analysis"} THEN 1 ELSE 0]
    /\ last_call = NoCall
    /\ pre_route = DecisionFields(DefaultState)

\* the pass of the stage-2 loop in which the service answers SeverityResult(arg)
SeverityPass ==
    /\ pc = "deep_qa_loop"
    /\ LET risk == state.risk_scores[idx]
           t == TranscriptMap(state, risk.interaction_id)
           res == SeverityResult(arg)
       IN  /\ state' = AnalyzeRisk(state, risk, res)
           /\ last_call' = Call("qa", idx, res.kind, QAParsedTruthy(res),
                                QACallSucceeds(res, t))
    /\ ret' = SeverityOf(arg)
    /\ idx' = idx + 1
    /\ pc' = IF idx = Len(state.risk_scores) THEN "deep_qa_averages" ELSE "deep_qa_loop"
    /\ UNCHANGED <<arg, initial_state, route_label, escalation, executed, pre_route>>

SeverityNext == SeverityPass

SeveritySpec == SeverityInit /\ [][SeverityNext]_vars

----------------------------------------------------------------------------
(* The averages: stage 2 onwards, over the one risk score of one transcript *)
(* and the evaluations the caller carried over from an earlier audit        *)

EarlierEvaluations ==
    { QAEvaluation("T0", "A1", 85, 75, 80, 80, 80, <<>>, <<>>, NONE),
      QAEvaluation("T0", "A2", 100, 100, 100, 100, 97, <<>>, <<"pace">>, MINOR),
      QAEvaluation("T0", "A2", 30, 60, 60, 60, 55, <<"card number read back">>,
                   <<"pci training">>, CRITICAL),
      QAEvaluation("T0", "A1", 72, 64, 91, 88, 78, <<>>, <<>>, NONE) }

\* an average_scores dict left by an earlier audit
EarlierAverages ==
    [ compliance |-> 912, empathy |-> 855, resolution |-> 800,
      process_adherence |-> 790, overall |-> 840 ]

\* the state stage 1 leaves for one transcript: its risk score, under the
\* transcript's id or under the id the service gave it
AveragesInit ==
    /\ \E evals \in SeqsUpTo(EarlierEvaluations, MaxSeededEvaluations),
          avg \in {EmptyDict, EarlierAverages},
          risk \in { RiskScore("T1", 9, <<"pci_risk">>, "high"),
                     RiskScore("T2", 2, <<>>, "medium") } :
          /\ initial_state = [DefaultState EXCEPT
                                 !.raw_transcripts = <<Transcript("T1", "A1", "Ann")>>,
                                 !.qa_evaluations = evals,
                                 !.average_scores = avg]
          /\ state = [DefaultState EXCEPT
                         !.raw_transcripts = <<Transcript("T1", "A1", "Ann")>>,
                         !.qa_evaluations = evals,
                         !.average_scores = avg,
                         !.risk_scores = <<risk>>,
                         !.transcripts_processed = 1]
    /\ pc = "deep_qa_loop"
    /\ idx = 1
    /\ route_label = ""
    /\ escalation = "idle"
    /\ executed = [s \in Stages |->
                     IF s \in {"ingest_and_risk_score", "deep_qa_analysis"} THEN 1 ELSE 0]
    /\ last_call = NoCall
    /\ pre_route = DecisionFields(DefaultState)
    /\ arg = NoValue
    /\ ret = NoValue

AveragesNext ==
    \/ DeepQAItem
    \/ DeepQAAverages
    \/ RouteByCompliance
    \/ HandleComplianceEscalation
    \/ DetectPatterns
    \/ CoachingBegin
    \/ CoachingItem
    \/ CompileFinalReport

AveragesSpec == AveragesInit /\ [][AveragesNext]_vars

----------------------------------------------------------------------------
(* Specifications of one function: arg is drawn by Init, one step calls    *)
(* the function on it and stores the result in ret.  The flow is idle.     *)

FlowIdle ==
    /\ initial_state = DefaultState
    /\ state = DefaultState
    /\ idx = 0
    /\ route_label = ""
    /\ escalation = "idle"
    /\ executed = [s \in Stages |-> 0]
    /\ last_call = NoCall
    /\ pre_route = DecisionFields(DefaultState)

FlowUnchanged ==
    UNCHANGED <<initial_state, state, idx, route_label, escalation, executed,
                last_call, pre_route>>

----------------------------------------------------------------------------
(* _parse_json_safe.  A raw string is a sequence of tokens: "{" and "}",   *)
(* "m" (the members of an object, as written: "a": 1), "k" (a key and its  *)
(* colon, to be followed by a nested object), "s" (white space), "w" (a    *)
(* word of prose), "F" (a ``` fence), "json" (the tag after a fence) and   *)
(* "D" (a run of "[" longer than the interpreter's recursion limit).       *)
(* The parsed dict is the object's tokens without white space.             *)

\* the result of a parse: a dict, or None / JSONDecodeError
Parsed(value) == [ok |-> TRUE, value |-> value]
None == [ok |-> FALSE, value |-> <<>>]

\* an exception that leaves the function: RecursionError is no JSONDecodeError
Raised == [ok |-> FALSE, value |-> <<"RecursionError">>]

RECURSIVE StripLeft(_)
StripLeft(text) ==
    IF text # <<>> /\ Head(text) = "s" THEN StripLeft(Tail(text)) ELSE text

RECURSIVE StripRight(_)
StripRight(text) ==
    IF text # <<>> /\ text[Len(text)] = "s"
    THEN StripRight(SubSeq(text, 1, Len(text) - 1)) ELSE text

\* the first position from i on that holds no white space
RECURSIVE SkipSpace(_, _)
SkipSpace(text, i) ==
    IF i <= Len(text) /\ text[i] = "s" THEN SkipSpace(text, i + 1) ELSE i

\* the position of the brace that closes the object opening at i, 0 when the
\* text from i on is no object: an object is empty, holds members, or holds
\* a key followed by an object
RECURSIVE ObjectEnd(_, _)
ObjectEnd(text, i) ==
    LET At(k, token) == k <= Len(text) /\ text[k] = token
        first == SkipSpace(text, i + 1)
        Closing(k) == IF At(SkipSpace(text, k), "}") THEN SkipSpace(text, k) ELSE 0
    IN  IF ~At(i, "{") THEN 0
        ELSE IF At(first, "}") THEN first
        ELSE IF At(first, "m") THEN Closing(first + 1)
        ELSE IF At(first, "k")
        THEN LET inner == ObjectEnd(text, SkipSpace(text, first + 1))
             IN  IF inner = 0 THEN 0 ELSE Closing(inner + 1)
        ELSE 0

\* the text is one JSON object and nothing else
IsObject(text) == text # <<>> /\ ObjectEnd(text, 1) = Len(text)

\* json.loads(text); None stands for JSONDecodeError.  The scanner descends
\* into nested brackets before it can reject them, so a document that opens
\* with a run deeper than the recursion limit raises RecursionError
JsonLoads(text) ==
    LET doc == StripRight(StripLeft(text))
    IN  IF doc # <<>> /\ doc[1] = "D" THEN Raised
        ELSE IF IsObject(doc) THEN Parsed(SelectSeq(doc, LAMBDA t : t # "s"))
        ELSE None

\* positions of a token in the text
Positions(text, token) == {k \in 1..Len(text) : text[k] = token}

Min(S) == CHOOSE k \in S : \A other \in S : k <= other
Max(S) == CHOOSE k \in S : \A other \in S : k >= other

\* group 1 of `open \s* (.*?) \s* fence` when open ends at position from - 1:
\* white space is skipped, then the text up to the next fence, less the white
\* space in front of that fence
FencedGroup(text, from) ==
    LET rest == StripLeft(SubSeq(text, from, Len(text)))
        close == Min(Positions(rest, "F"))
    IN  StripRight(SubSeq(rest, 1, close - 1))

\* re.search(r"```json\s*(.*?)\s*```", raw, re.DOTALL): the leftmost match
JsonFenceStarts(text) ==
    {k \in 1..(Len(text) - 2) :
        /\ text[k] = "F"
        /\ text[k + 1] = "json"
        /\ \E c \in (k + 2)..Len(text) : text[c] = "F"}

\* re.search(r"```\s*(.*?)\s*```", raw, re.DOTALL)
FenceStarts(text) ==
    {k \in 1..(Len(text) - 1) :
        text[k] = "F" /\ \E c \in (k + 1)..Len(text) : text[c] = "F"}

\* re.search(r"(\{.*\})", raw, re.DOTALL): first "{" to last "}"
BraceMatches(text) ==
    /\ Positions(text, "{") # {}
    /\ \E c \in Positions(text, "}") : c > Min(Positions(text, "{"))

\* a lazy brace pattern: the first "{" to the first "}" after it
BraceGroup_Lazy(text) ==
    LET open == Min(Positions(text, "{"))
    IN  SubSeq(text, open, Min({c \in Positions(text, "}") : c > open}))

\* group 1 of the brace pattern: greedy, the first "{" to the last "}"
BraceGroup(text) ==
    SubSeq(text, Min(Positions(text, "{")), Max(Positions(text, "}")))

\* a parser that knows the brace pattern only
Candidates_BraceOnly(text) ==
    IF BraceMatches(text) THEN <<BraceGroup(text)>> ELSE <<>>

\* the groups of the patterns that match, in the order of `patterns`
Candidates(text) ==
    (IF JsonFenceStarts(text) # {}
     THEN <<FencedGroup(text, Min(JsonFenceStarts(text)) + 2)>> ELSE <<>>)
    \o (IF FenceStarts(text) # {}
        THEN <<FencedGroup(text, Min(FenceStarts(text)) + 1)>> ELSE <<>>)
    \o (IF BraceMatches(text) THEN <<BraceGroup(text)>> ELSE <<>>)

\* the loop over the patterns: the first group that json.loads accepts
RECURSIVE FirstLoadable(_)
FirstLoadable(groups) ==
    IF groups = <<>> THEN None
    ELSE IF JsonLoads(Head(groups)) # None THEN JsonLoads(Head(groups))
    ELSE FirstLoadable(Tail(groups))

\* both try blocks catch JSONDecodeError (the first TypeError too): any other
\* exception of json.loads leaves the function
_parse_json_safe(raw) ==
    IF JsonLoads(raw) # None THEN JsonLoads(raw) ELSE FirstLoadable(Candidates(raw))

\* structured records as the service writes them
JsonRecords ==
    { << "{", "}" >>,
      << "{", "m", "}" >>,
      << "{", "s", "m", "s", "}" >>,
      << "{", "k", "{", "m", "}", "}" >> }

\* what explanatory prose is made of: words, white space, braces and fences
ProseTokens == {"w", "s", "{", "}", "F"}

\* the ways a record is embedded: as it is, in a ```json fence, in a ``` fence,
\* in a ```json fence that follows a ``` fence holding an empty object
Embeddings == {"bare", "json_fence", "fence", "two_fences"}

Embed(prefix, record, suffix, how) ==
    prefix
    \o (CASE how = "bare"       -> record
          [] how = "json_fence" -> << "F", "json", "s" >> \o record \o << "s", "F" >>
          [] how = "fence"      -> << "F", "s" >> \o record \o << "s", "F" >>
          [] how = "two_fences" ->
               << "F", "s", "{", "}", "s", "F", "s", "F", "json", "s" >>
               \o record \o << "s", "F" >>)
    \o suffix

ParserInputs ==
    [ prefix : SeqsUpTo(ProseTokens, MaxProse), record : JsonRecords,
      suffix : SeqsUpTo(ProseTokens, MaxProse), how : Embeddings ]

ParserInit ==
    /\ arg \in ParserInputs
    /\ ret = NoValue
    /\ pc = "call"
    /\ FlowIdle

\* the parser applied to the record alone and to the record inside the prose
ParserCall ==
    /\ pc = "call"
    /\ ret' = [ bare |-> _parse_json_safe(arg.record),
                embedded |-> _parse_json_safe(Embed(arg.prefix, arg.record,
                                                    arg.suffix, arg.how)) ]
    /\ pc' = "returned"
    /\ UNCHANGED arg
    /\ FlowUnchanged

ParserNext == ParserCall

\* prose that may hold a run of brackets deeper than the recursion limit
DeepProseTokens == ProseTokens \cup {"D"}

DeepParserInit ==
    /\ arg \in [ prefix : SeqsUpTo(DeepProseTokens, MaxProse), record : JsonRecords,
                 suffix : SeqsUpTo(DeepProseTokens, MaxProse), how : Embeddings ]
    /\ ret = NoValue
    /\ pc = "call"
    /\ FlowIdle

DeepParserSpec == DeepParserInit /\ [][ParserNext]_vars

ParserSpec == ParserInit /\ [][ParserNext]_vars

----------------------------------------------------------------------------
(* tools/red_flag_scanner.py: KeywordRedFlagScanner.  A transcript is the   *)
(* sequence of its characters; risk scores are in hundredths (70 is 0.70).  *)

\* `p in text`: p occurs in text as a substring
Contains(text, p) ==
    \E i \in 1..(Len(text) - Len(p) + 1) : SubSeq(text, i, i + Len(p) - 1) = p

compliance_patterns ==
    <<
    [ category |-> "card_number_exposure",
      patterns |->
        << <<"c", "a", "r", "d", " ", "n", "u", "m", "b", "e", "r", " ", "i",
           "s">>,
           <<"y", "o", "u", "r", " ", "c", "a", "r", "d", " ", "n", "u", "m",
           "b", "e", "r">>,
           <<"r", "e", "a", "d", " ", "b", "a", "c", "k">>,
           <<"c", "r", "e", "d", "i", "t", " ", "c", "a", "r", "d">>,
           <<"c", "a", "r", "d", " ", "e", "n", "d", "i", "n", "g", " ", "i",
           "n">>,
           <<"f", "u", "l", "l", " ", "c", "a", "r", "d">> >> ],
    [ category |-> "missing_disclosure",
      patterns |->
        << <<"c", "a", "l", "l", " ", "m", "a", "y", " ", "b", "e", " ", "r",
           "e", "c", "o", "r", "d", "e", "d">>,
           <<"c", "a", "l", "l", " ", "i", "s", " ", "b", "e", "i", "n", "g",
           " ", "r", "e", "c", "o", "r", "d", "e", "d">>,
           <<"f", "o", "r", " ", "q", "u", "a", "l", "i", "t", "y", " ", "a",
           "n", "d", " ", "t", "r", "a", "i", "n", "i", "n", "g">>,
           <<"c", "h", "a", "t", " ", "i", "s", " ", "b", "e", "i", "n", "g",
           " ", "r", "e", "c", "o", "r", "d", "e", "d">> >> ],
    [ category |-> "data_handling",
      patterns |->
        << <<"s", "o", "c", "i", "a", "l", " ", "s", "e", "c", "u", "r", "i",
           "t", "y">>,
           <<"s", "s", "n">>,
           <<"d", "a", "t", "e", " ", "o", "f", " ", "b", "i", "r", "t", "h">>,
           <<"m", "o", "t", "h", "e", "r", "'", "s", " ", "m", "a", "i", "d",
           "e", "n">> >> ]
    >>

complaint_patterns ==
    <<
    [ category |-> "escalation_request",
      patterns |->
        << <<"s", "p", "e", "a", "k", " ", "t", "o", " ", "a", " ", "m", "a",
           "n", "a", "g", "e", "r">>,
           <<"s", "p", "e", "a", "k", " ", "t", "o", " ", "a", " ", "s", "u",
           "p", "e", "r", "v", "i", "s", "o", "r">>,
           <<"t", "r", "a", "n", "s", "f", "e", "r", " ", "m", "e", " ", "t",
           "o">>,
           <<"y", "o", "u", "r", " ", "m", "a", "n", "a", "g", "e", "r">>,
           <<"e", "s", "c", "a", "l", "a", "t", "e">>,
           <<"f", "i", "l", "e", " ", "a", " ", "c", "o", "m", "p", "l", "a",
           "i", "n", "t">>,
           <<"f", "o", "r", "m", "a", "l", " ", "c", "o", "m", "p", "l", "a",
           "i", "n", "t">> >> ],
    [ category |-> "churn_risk",
      patterns |->
        << <<"c", "a", "n", "c", "e", "l", " ", "m", "y">>,
           <<"c", "a", "n", "c", "e", "l", "l", "a", "t", "i", "o", "n">>,
           <<"s", "w", "i", "t", "c", "h", " ", "t", "o">>,
           <<"c", "o", "m", "p", "e", "t", "i", "t", "o", "r">>,
           <<"l", "e", "a", "v", "i", "n", "g">>,
           <<"d", "o", "n", "e", " ", "w", "i", "t", "h", " ", "y", "o", "u">>,
           <<"n", "e", "v", "e", "r", " ", "c", "o", "m", "i", "n", "g", " ",
           "b", "a", "c", "k">> >> ],
    [ category |-> "frustration",
      patterns |->
        << <<"u", "n", "a", "c", "c", "e", "p", "t", "a", "b", "l", "e">>,
           <<"r", "i", "d", "i", "c", "u", "l", "o", "u", "s">>,
           <<"w", "o", "r", "s", "t", " ", "s", "e", "r", "v", "i", "c", "e">>,
           <<"b", "e", "e", "n", " ", "w", "a", "i", "t", "i", "n", "g">>,
           <<"t", "h", "i", "r", "d", " ", "t", "i", "m", "e">>,
           <<"a", "l", "r", "e", "a", "d", "y", " ", "t", "o", "l", "d">>,
           <<"k", "e", "e", "p", " ", "r", "e", "p", "e", "a", "t", "i", "n",
           "g">>,
           <<"w", "a", "s", "t", "e", " ", "o", "f", " ", "t", "i", "m", "e">> >> ]
    >>

process_patterns ==
    <<
    [ category |-> "hold_issues",
      patterns |->
        << <<"b", "e", "e", "n", " ", "o", "n", " ", "h", "o", "l", "d">>,
           <<"l", "o", "n", "g", " ", "h", "o", "l", "d">>,
           <<"h", "o", "l", "d", "i", "n", "g", " ", "f", "o", "r">>,
           <<"w", "a", "i", "t", "e", "d", " ", "f", "o", "r">> >> ],
    [ category |-> "transfer_issues",
      patterns |->
        << <<"t", "r", "a", "n", "s", "f", "e", "r", "r", "e", "d", " ", "a",
           "g", "a", "i", "n">>,
           <<"t", "h", "i", "r", "d", " ", "p", "e", "r", "s", "o", "n">>,
           <<"k", "e", "e", "p", " ", "g", "e", "t", "t", "i", "n", "g", " ",
           "t", "r", "a", "n", "s", "f", "e", "r", "r", "e", "d">>,
           <<"b", "o", "u", "n", "c", "e", "d", " ", "a", "r", "o", "u", "n",
           "d">> >> ],
    [ category |-> "repeat_contact",
      patterns |->
        << <<"c", "a", "l", "l", "e", "d", " ", "b", "e", "f", "o", "r", "e">>,
           <<"c", "a", "l", "l", "e", "d", " ", "y", "e", "s", "t", "e", "r",
           "d", "a", "y">>,
           <<"a", "l", "r", "e", "a", "d", "y", " ", "c", "o", "n", "t", "a",
           "c", "t", "e", "d">>,
           <<"t", "h", "i", "r", "d", " ", "t", "i", "m", "e", " ", "c", "a",
           "l", "l", "i", "n", "g">>,
           <<"s", "a", "m", "e", " ", "i", "s", "s", "u", "e">> >> ]
    >>

disclosure_phrases ==
    << <<"c", "a", "l", "l", " ", "m", "a", "y", " ", "b", "e", " ", "r", "e",
       "c", "o", "r", "d", "e", "d">>,
       <<"c", "a", "l", "l", " ", "i", "s", " ", "b", "e", "i", "n", "g", " ",
       "r", "e", "c", "o", "r", "d", "e", "d">>,
       <<"f", "o", "r", " ", "q", "u", "a", "l", "i", "t", "y", " ", "a", "n",
       "d", " ", "t", "r", "a", "i", "n", "i", "n", "g">>,
       <<"c", "h", "a", "t", " ", "i", "s", " ", "b", "e", "i", "n", "g", " ",
       "r", "e", "c", "o", "r", "d", "e", "d">> >>

Flag(type, category, severity, pattern) ==
    [type |-> type, category |-> category, severity |-> severity,
     matched_pattern |-> pattern]

\* the inner loop: one flag per pattern of the category that occurs, in order
CategoryFlags(type, severity, entry, text_lower) ==
    LET matched == SelectSeq(entry.patterns, LAMBDA p : Contains(text_lower, p))
    IN  [i \in 1..Len(matched) |-> Flag(type, entry.category, severity, matched[i])]

\* the outer loop over the categories of one table
RECURSIVE ScanPatterns(_, _, _, _)
ScanPatterns(patterns, type, severity, text_lower) ==
    IF patterns = <<>> THEN <<>>
    ELSE CategoryFlags(type, severity, Head(patterns), text_lower)
         \o ScanPatterns(Tail(patterns), type, severity, text_lower)

has_disclosure(text_lower) ==
    \E k \in 1..Len(disclosure_phrases) : Contains(text_lower, disclosure_phrases[k])

NoDisclosureFound ==
    <<"(", "n", "o", " ", "r", "e", "c", "o", "r", "d", "i", "n", "g", " ",
      "d", "i", "s", "c", "l", "o", "s", "u", "r", "e", " ", "f", "o", "u",
      "n", "d", ")">>

\* a scanner that wants the disclosure on every channel
MissingDisclosureFlags_AnyChannel(text_lower, channel) ==
    IF ~has_disclosure(text_lower)
    THEN <<Flag("compliance", "missing_disclosure", "critical", NoDisclosureFound)>>
    ELSE <<>>

\* the flag for an absent disclosure, on voice and chat only
MissingDisclosureFlags(text_lower, channel) ==
    IF ~has_disclosure(text_lower) /\ channel \in {"voice", "chat"}
    THEN <<Flag("compliance", "missing_disclosure", "critical", NoDisclosureFound)>>
    ELSE <<>>

ScannerFlags(transcript_text, channel) ==
    LET text_lower == Lower(transcript_text)
    IN  ScanPatterns(SelectSeq(compliance_patterns,
                               LAMBDA e : e.category # "missing_disclosure"),
                     "compliance", "critical", text_lower)
        \o MissingDisclosureFlags(text_lower, channel)
        \o ScanPatterns(complaint_patterns, "complaint", "high", text_lower)
        \o ScanPatterns(process_patterns, "process", "medium", text_lower)

severity_weights(severity) ==
    CASE severity = "critical" -> 100
      [] severity = "high"     -> 70
      [] severity = "medium"   -> 40

\* a score that is not capped at 1.0
ScannerRiskScore_NoCap(flags) ==
    IF flags # <<>>
    THEN Max({severity_weights(flags[k].severity) : k \in 1..Len(flags)})
         + (Len(flags) - 1) * 5
    ELSE 10

ScannerRiskScore(flags) ==
    IF flags # <<>>
    THEN LET max_severity ==
                 Max({severity_weights(flags[k].severity) : k \in 1..Len(flags)})
         IN  Min({100, max_severity + (Len(flags) - 1) * 5})
    ELSE 10

ScannerPriority(risk_score) ==
    IF risk_score >= 70 THEN "high"
    ELSE IF risk_score >= 40 THEN "medium"
    ELSE "low"

\* KeywordRedFlagScanner._run, the dict it dumps
KeywordRedFlagScanner(transcript_text, channel) ==
    LET flags == ScannerFlags(transcript_text, channel)
    IN  [ flags_found |-> Len(flags),
          flags |-> flags,
          risk_score |-> ScannerRiskScore(flags),
          priority |-> ScannerPriority(ScannerRiskScore(flags)) ]

(* Transcripts under test: up to MaxSegments of these sentences in a row *)

Greeting ==
    <<"H", "e", "l", "l", "o", ",", " ", "h", "o", "w", " ", "c", "a", "n",
      " ", "I", " ", "h", "e", "l", "p", " ", "y", "o", "u", " ", "t", "o",
      "d", "a", "y", "?", " ">>

Disclosure ==
    <<"T", "h", "i", "s", " ", "C", "A", "L", "L", " ", "M", "A", "Y", " ",
      "B", "E", " ", "R", "E", "C", "O", "R", "D", "E", "D", ".", " ">>

CardReadBack ==
    <<"Y", "o", "u", "r", " ", "C", "a", "r", "d", " ", "N", "u", "m", "b",
      "e", "r", " ", "i", "s", " ", "4", "1", "1", "1", ".", " ">>

ManagerRequest ==
    <<"I", " ", "w", "a", "n", "t", " ", "t", "o", " ", "s", "p", "e", "a",
      "k", " ", "t", "o", " ", "a", " ", "M", "a", "n", "a", "g", "e", "r",
      "!", " ">>

ThirdCall ==
    <<"T", "h", "i", "s", " ", "i", "s", " ", "t", "h", "e", " ", "t", "h",
      "i", "r", "d", " ", "t", "i", "m", "e", " ", "c", "a", "l", "l", "i",
      "n", "g", ".", " ">>

SameIssue ==
    <<"I", "t", " ", "i", "s", " ", "t", "h", "e", " ", "S", "A", "M", "E",
      " ", "I", "S", "S", "U", "E", ".", " ">>

LongComplaint ==
    <<"I", " ", "h", "a", "v", "e", " ", "b", "e", "e", "n", " ", "o", "n",
      " ", "h", "o", "l", "d", ",", " ", "a", " ", "l", "o", "n", "g", " ",
      "h", "o", "l", "d", ",", " ", "h", "o", "l", "d", "i", "n", "g", " ",
      "f", "o", "r", " ", "a", "g", "e", "s", ",", " ", "w", "a", "i", "t",
      "e", "d", " ", "f", "o", "r", " ", "y", "o", "u", ",", " ", "t", "r",
      "a", "n", "s", "f", "e", "r", "r", "e", "d", " ", "a", "g", "a", "i",
      "n", ",", " ", "t", "o", " ", "a", " ", "t", "h", "i", "r", "d", " ",
      "p", "e", "r", "s", "o", "n", ",", " ", "b", "o", "u", "n", "c", "e",
      "d", " ", "a", "r", "o", "u", "n", "d", ".", " ">>

Sentences ==
    {Greeting, Disclosure, CardReadBack, ManagerRequest, ThirdCall, SameIssue,
     LongComplaint}

RECURSIVE Join(_)
Join(parts) == IF parts = <<>> THEN <<>> ELSE Head(parts) \o Join(Tail(parts))

TranscriptTexts == {Join(parts) : parts \in SeqsUpTo(Sentences, MaxSegments)}

Channels == {"voice", "chat", "email", "sms"}

ScannerInit ==
    /\ arg \in [transcript_text : TranscriptTexts, channel : Channels]
    /\ ret = NoValue
    /\ pc = "call"
    /\ FlowIdle

ScannerCall ==
    /\ pc = "call"
    /\ ret' = KeywordRedFlagScanner(arg.transcript_text, arg.channel)
    /\ pc' = "returned"
    /\ UNCHANGED arg
    /\ FlowUnchanged

ScannerNext == ScannerCall

ScannerSpec == ScannerInit /\ [][ScannerNext]_vars

(***************************************************************************)
(* tools/compliance_matcher.py: CompliancePatternMatcher.  Transcripts and *)
(* phrases are sequences of characters; compliance_rate is in tenths.      *)
(***************************************************************************)

\* REQUIREMENT_SETS["general"]
RequirementSet_general ==
    [ must_contain |->
        <<
          [ requirement |-> "call_recording_disclosure",
            phrases |->
              << <<"c", "a", "l", "l", " ", "m", "a", "y", " ", "b", "e", " ",
                 "r", "e", "c", "o", "r", "d", "e", "d">>,
                 <<"c", "a", "l", "l", " ", "i", "s", " ", "b", "e", "i", "n",
                 "g", " ", "r", "e", "c", "o", "r", "d", "e", "d">>,
                 <<"t", "h", "i", "s", " ", "c", "a", "l", "l", " ", "i", "s",
                 " ", "r", "e", "c", "o", "r", "d", "e", "d">>,
                 <<"f", "o", "r", " ", "q", "u", "a", "l", "i", "t", "y", " ",
                 "a", "n", "d", " ", "t", "r", "a", "i", "n", "i", "n", "g">>,
                 <<"c", "h", "a", "t", " ", "i", "s", " ", "b", "e", "i", "n",
                 "g", " ", "r", "e", "c", "o", "r", "d", "e", "d">> >> ],
          [ requirement |-> "identity_verification",
            phrases |->
              << <<"v", "e", "r", "i", "f", "y", " ", "y", "o", "u", "r", " ",
                 "i", "d", "e", "n", "t", "i", "t", "y">>,
                 <<"c", "o", "n", "f", "i", "r", "m", " ", "y", "o", "u", "r",
                 " ", "n", "a", "m", "e">>,
                 <<"c", "a", "n", " ", "y", "o", "u", " ", "c", "o", "n", "f",
                 "i", "r", "m">>,
                 <<"f", "o", "r", " ", "s", "e", "c", "u", "r", "i", "t", "y",
                 " ", "p", "u", "r", "p", "o", "s", "e", "s">>,
                 <<"v", "e", "r", "i", "f", "y", " ", "y", "o", "u", "r", " ",
                 "a", "c", "c", "o", "u", "n", "t">> >> ]
        >>,
      must_not_contain |->
        <<
          [ requirement |-> "full_card_readback",
            phrases |->
              << <<"y", "o", "u", "r", " ", "c", "a", "r", "d", " ", "n", "u",
                 "m", "b", "e", "r", " ", "i", "s">>,
                 <<"c", "a", "r", "d", " ", "n", "u", "m", "b", "e", "r", " ",
                 "i", "s", " ">>,
                 <<"r", "e", "a", "d", " ", "b", "a", "c", "k", " ", "y", "o",
                 "u", "r", " ", "c", "a", "r", "d">>,
                 <<"y", "o", "u", "r", " ", "f", "u", "l", "l", " ", "c", "a",
                 "r", "d", " ", "n", "u", "m", "b", "e", "r">> >> ],
          [ requirement |-> "ssn_spoken",
            phrases |->
              << <<"y", "o", "u", "r", " ", "s", "o", "c", "i", "a", "l", " ",
                 "s", "e", "c", "u", "r", "i", "t", "y", " ", "n", "u", "m",
                 "b", "e", "r", " ", "i", "s">>,
                 <<"y", "o", "u", "r", " ", "s", "s", "n", " ", "i", "s">> >> ]
        >> ]

\* REQUIREMENT_SETS["pci_dss"]
RequirementSet_pci_dss ==
    [ must_contain |->
        <<
          [ requirement |-> "secure_payment_redirect",
            phrases |->
              << <<"s", "e", "c", "u", "r", "e", " ", "p", "a", "y", "m", "e",
                 "n", "t">>,
                 <<"t", "r", "a", "n", "s", "f", "e", "r", " ", "y", "o", "u",
                 " ", "t", "o", " ", "o", "u", "r", " ", "p", "a", "y", "m",
                 "e", "n", "t", " ", "s", "y", "s", "t", "e", "m">>,
                 <<"p", "a", "y", "m", "e", "n", "t", " ", "p", "o", "r", "t",
                 "a", "l">>,
                 <<"s", "e", "c", "u", "r", "e", " ", "l", "i", "n", "e">> >> ]
        >>,
      must_not_contain |->
        <<
          [ requirement |-> "card_number_spoken",
            phrases |->
              << <<"y", "o", "u", "r", " ", "c", "a", "r", "d", " ", "n", "u",
                 "m", "b", "e", "r", " ", "i", "s">>,
                 <<"c", "a", "r", "d", " ", "n", "u", "m", "b", "e", "r", " ",
                 "i", "s", " ">>,
                 <<"r", "e", "a", "d", " ", "b", "a", "c", "k", " ", "y", "o",
                 "u", "r", " ", "c", "a", "r", "d">>,
                 <<"r", "e", "p", "e", "a", "t", " ", "y", "o", "u", "r", " ",
                 "c", "a", "r", "d">>,
                 <<"f", "u", "l", "l", " ", "c", "a", "r", "d", " ", "n", "u",
                 "m", "b", "e", "r">> >> ],
          [ requirement |-> "cvv_spoken",
            phrases |->
              << <<"y", "o", "u", "r", " ", "c", "v", "v", " ", "i", "s">>,
                 <<"s", "e", "c", "u", "r", "i", "t", "y", " ", "c", "o", "d",
                 "e", " ", "i", "s">>,
                 <<"c", "v", "v", " ", "n", "u", "m", "b", "e", "r", " ", "i",
                 "s">> >> ],
          [ requirement |-> "card_stored",
            phrases |->
              << <<"w", "e", " ", "h", "a", "v", "e", " ", "y", "o", "u", "r",
                 " ", "c", "a", "r", "d", " ", "o", "n", " ", "f", "i", "l",
                 "e">>,
                 <<"s", "t", "o", "r", "e", "d", " ", "y", "o", "u", "r", " ",
                 "c", "a", "r", "d">>,
                 <<"k", "e", "e", "p", " ", "y", "o", "u", "r", " ", "c", "a",
                 "r", "d">> >> ]
        >> ]

\* REQUIREMENT_SETS["collections"]
RequirementSet_collections ==
    [ must_contain |->
        <<
          [ requirement |-> "mini_miranda",
            phrases |->
              << <<"t", "h", "i", "s", " ", "i", "s", " ", "a", "n", " ", "a",
                 "t", "t", "e", "m", "p", "t", " ", "t", "o", " ", "c", "o",
                 "l", "l", "e", "c", "t", " ", "a", " ", "d", "e", "b", "t">>,
                 <<"a", "n", "y", " ", "i", "n", "f", "o", "r", "m", "a", "t",
                 "i", "o", "n", " ", "o", "b", "t", "a", "i", "n", "e", "d",
                 " ", "w", "i", "l", "l", " ", "b", "e", " ", "u", "s", "e",
                 "d", " ", "f", "o", "r", " ", "t", "h", "a", "t", " ", "p",
                 "u", "r", "p", "o", "s", "e">>,
                 <<"d", "e", "b", "t", " ", "c", "o", "l", "l", "e", "c", "t",
                 "o", "r">> >> ],
          [ requirement |-> "right_party_verification",
            phrases |->
              << <<"a", "m", " ", "i", " ", "s", "p", "e", "a", "k", "i", "n",
                 "g", " ", "w", "i", "t", "h">>,
                 <<"i", "s", " ", "t", "h", "i", "s">>,
                 <<"c", "o", "n", "f", "i", "r", "m", " ", "y", "o", "u", "r",
                 " ", "i", "d", "e", "n", "t", "i", "t", "y">> >> ]
        >>,
      must_not_contain |->
        <<
          [ requirement |-> "third_party_disclosure",
            phrases |->
              << <<"t", "e", "l", "l", " ", "t", "h", "e", "m", " ", "t", "h",
                 "e", "y", " ", "o", "w", "e">>,
                 <<"i", "n", "f", "o", "r", "m", " ", "y", "o", "u", "r", " ",
                 "f", "a", "m", "i", "l", "y">>,
                 <<"l", "e", "t", " ", "y", "o", "u", "r", " ", "e", "m", "p",
                 "l", "o", "y", "e", "r", " ", "k", "n", "o", "w">> >> ],
          [ requirement |-> "threats",
            phrases |->
              << <<"w", "e", " ", "w", "i", "l", "l", " ", "h", "a", "v", "e",
                 " ", "y", "o", "u", " ", "a", "r", "r", "e", "s", "t", "e",
                 "d">>,
                 <<"g", "o", " ", "t", "o", " ", "j", "a", "i", "l">>,
                 <<"s", "u", "e", " ", "y", "o", "u">>,
                 <<"g", "a", "r", "n", "i", "s", "h", " ", "y", "o", "u", "r",
                 " ", "w", "a", "g", "e", "s">> >> ]
        >> ]

\* REQUIREMENT_SETS["sales"]
RequirementSet_sales ==
    [ must_contain |->
        <<
          [ requirement |-> "terms_and_conditions",
            phrases |->
              << <<"t", "e", "r", "m", "s", " ", "a", "n", "d", " ", "c", "o",
                 "n", "d", "i", "t", "i", "o", "n", "s">>,
                 <<"t", "e", "r", "m", "s", " ", "o", "f", " ", "s", "e", "r",
                 "v", "i", "c", "e">>,
                 <<"b", "y", " ", "a", "g", "r", "e", "e", "i", "n", "g">>,
                 <<"d", "o", " ", "y", "o", "u", " ", "a", "c", "c", "e", "p",
                 "t", " ", "t", "h", "e", " ", "t", "e", "r", "m", "s">> >> ],
          [ requirement |-> "cancellation_policy",
            phrases |->
              << <<"c", "a", "n", "c", "e", "l", " ", "w", "i", "t", "h", "i",
                 "n">>,
                 <<"c", "a", "n", "c", "e", "l", "l", "a", "t", "i", "o", "n",
                 " ", "p", "o", "l", "i", "c", "y">>,
                 <<"c", "o", "o", "l", "i", "n", "g", " ", "o", "f", "f", " ",
                 "p", "e", "r", "i", "o", "d">>,
                 <<"m", "o", "n", "e", "y", " ", "b", "a", "c", "k", " ", "g",
                 "u", "a", "r", "a", "n", "t", "e", "e">> >> ],
          [ requirement |-> "pricing_disclosure",
            phrases |->
              << <<"t", "o", "t", "a", "l", " ", "c", "o", "s", "t">>,
                 <<"m", "o", "n", "t", "h", "l", "y", " ", "c", "h", "a", "r",
                 "g", "e">>,
                 <<"p", "e", "r", " ", "m", "o", "n", "t", "h">>,
                 <<"b", "i", "l", "l", "e", "d", " ", "a", "t">>,
                 <<"p", "r", "i", "c", "e", " ", "i", "s">> >> ]
        >>,
      must_not_contain |->
        <<
          [ requirement |-> "misleading_claims",
            phrases |->
              << <<"g", "u", "a", "r", "a", "n", "t", "e", "e", "d", " ", "t",
                 "o">>,
                 <<"y", "o", "u", " ", "w", "i", "l", "l", " ", "d", "e", "f",
                 "i", "n", "i", "t", "e", "l", "y">>,
                 <<"1", "0", "0", "%", " ", "g", "u", "a", "r", "a", "n", "t",
                 "e", "e", "d">>,
                 <<"n", "o", " ", "r", "i", "s", "k", " ", "a", "t", " ", "a",
                 "l", "l">> >> ]
        >> ]

RequirementSetNames == {"general", "pci_dss", "collections", "sales"}

REQUIREMENT_SETS ==
    [name \in RequirementSetNames |->
        CASE name = "general" -> RequirementSet_general
          [] name = "pci_dss" -> RequirementSet_pci_dss
          [] name = "collections" -> RequirementSet_collections
          [] name = "sales" -> RequirementSet_sales]

\* REQUIREMENT_SETS.get(requirement_set, REQUIREMENT_SETS["general"])
RequirementsFor(requirement_set) ==
    IF requirement_set \in RequirementSetNames
    THEN REQUIREMENT_SETS[requirement_set]
    ELSE REQUIREMENT_SETS["general"]

\* [p for p in phrases if p in text_lower]
MatchedPhrases(phrases, text_lower) ==
    SelectSeq(phrases, LAMBDA p : Contains(text_lower, p))

CheckResult(requirement, type, status, phrases) ==
    [requirement |-> requirement, type |-> type, status |-> status,
     phrases |-> phrases]

\* one iteration of the must_contain loop
MustContainResult_AllPhrases(req, text_lower) ==
    LET matched == MatchedPhrases(req.phrases, text_lower)
        found == \A i \in 1..Len(req.phrases) :
                     Contains(text_lower, req.phrases[i])
    IN  CheckResult(req.requirement, "must_contain",
                    IF found THEN "PASS" ELSE "FAIL", matched)

MustContainResult(req, text_lower) ==
    LET matched == MatchedPhrases(req.phrases, text_lower)
        found == \E i \in 1..Len(req.phrases) :
                     Contains(text_lower, req.phrases[i])
    IN  CheckResult(req.requirement, "must_contain",
                    IF found THEN "PASS" ELSE "FAIL", matched)

\* one iteration of the must_not_contain loop
MustNotContainResult(req, text_lower) ==
    LET violations == MatchedPhrases(req.phrases, text_lower)
        is_clean == Len(violations) = 0
    IN  CheckResult(req.requirement, "must_not_contain",
                    IF is_clean THEN "PASS" ELSE "FAIL", violations)

MatcherResults_MustContainOnly(reqs, text_lower) ==
    [i \in 1..Len(reqs.must_contain) |->
        MustContainResult(reqs.must_contain[i], text_lower)]

\* the results list after both loops
MatcherResults(reqs, text_lower) ==
    [i \in 1..Len(reqs.must_contain) |->
        MustContainResult(reqs.must_contain[i], text_lower)]
    \o [i \in 1..Len(reqs.must_not_contain) |->
        MustNotContainResult(reqs.must_not_contain[i], text_lower)]

\* round((passed / total) * 100, 1) if total > 0 else 100.0, in tenths
ComplianceRate(passed, total) ==
    IF total > 0 THEN RoundTenths(100 * passed, total) ELSE 1000

\* CompliancePatternMatcher._run, the dict it dumps
CompliancePatternMatcher(transcript_text, requirement_set) ==
    LET reqs == RequirementsFor(requirement_set)
        text_lower == Lower(transcript_text)
        results == MatcherResults(reqs, text_lower)
        total == Len(results)
        passed == Cardinality({i \in 1..total : results[i].status = "PASS"})
    IN  [ requirement_set |-> requirement_set,
          total_checks |-> total,
          passed |-> passed,
          failed |-> total - passed,
          compliance_rate |-> ComplianceRate(passed, total),
          results |-> results ]

(* Transcripts under test: up to MaxSegments of these sentences in a row *)

IdentityCheck ==
    <<"C", "a", "n", " ", "y", "o", "u", " ", "C", "O", "N", "F", "I", "R",
      "M", " ", "y", "o", "u", "r", " ", "n", "a", "m", "e", "?", " ">>

SsnSpoken ==
    <<"Y", "o", "u", "r", " ", "S", "S", "N", " ", "i", "s", " ", "o", "n",
      " ", "f", "i", "l", "e", ".", " ">>

SecureLine ==
    <<"I", " ", "w", "i", "l", "l", " ", "t", "r", "a", "n", "s", "f", "e",
      "r", " ", "y", "o", "u", " ", "t", "o", " ", "o", "u", "r", " ", "S",
      "e", "c", "u", "r", "e", " ", "P", "a", "y", "m", "e", "n", "t", " ",
      "p", "o", "r", "t", "a", "l", ".", " ">>

Collector ==
    <<"T", "h", "i", "s", " ", "i", "s", " ", "a", "n", " ", "a", "t", "t",
      "e", "m", "p", "t", " ", "t", "o", " ", "c", "o", "l", "l", "e", "c",
      "t", " ", "a", " ", "D", "E", "B", "T", ".", " ", "A", "m", " ", "I",
      " ", "s", "p", "e", "a", "k", "i", "n", "g", " ", "w", "i", "t", "h",
      " ", "S", "a", "m", "?", " ">>

SalesPitch ==
    <<"T", "h", "e", " ", "P", "r", "i", "c", "e", " ", "i", "s", " ", "2",
      "0", " ", "p", "e", "r", " ", "m", "o", "n", "t", "h", ",", " ", "1",
      "0", "0", "%", " ", "G", "u", "a", "r", "a", "n", "t", "e", "e", "d",
      ".", " ">>

MatcherSentences ==
    {Greeting, Disclosure, CardReadBack, IdentityCheck, SsnSpoken, SecureLine,
     Collector, SalesPitch}

MatcherTexts ==
    {Join(parts) : parts \in SeqsUpTo(MatcherSentences, MaxSegments)}

\* the four named sets and a name that is not in REQUIREMENT_SETS
RequirementSetArgs == RequirementSetNames \cup {"hipaa"}

MatcherInit ==
    /\ arg \in [transcript_text : MatcherTexts,
                requirement_set : RequirementSetArgs]
    /\ ret = NoValue
    /\ pc = "call"
    /\ FlowIdle

MatcherCall ==
    /\ pc = "call"
    /\ ret' = CompliancePatternMatcher(arg.transcript_text, arg.requirement_set)
    /\ pc' = "returned"
    /\ UNCHANGED arg
    /\ FlowUnchanged

MatcherNext == MatcherCall

MatcherSpec == MatcherInit /\ [][MatcherNext]_vars

(***************************************************************************)
(* tools/scorecard_calc.py: QAScorecardCalculator.  Scores are in          *)
(* hundredths of a point and weights in hundredths, so 85.57 is 8557 and   *)
(* 0.25 is 25.                                                             *)
(***************************************************************************)

Dimensions == <<"compliance", "empathy", "resolution", "process_adherence">>

ProfileNames == {"standard", "compliance_heavy", "cx_focused"}

WEIGHT_PROFILES ==
    [name \in ProfileNames |->
        CASE name = "standard" ->
               [compliance |-> 30, empathy |-> 25, resolution |-> 25,
                process_adherence |-> 20]
          [] name = "compliance_heavy" ->
               [compliance |-> 45, empathy |-> 15, resolution |-> 20,
                process_adherence |-> 20]
          [] name = "cx_focused" ->
               [compliance |-> 20, empathy |-> 35, resolution |-> 30,
                process_adherence |-> 15]]

\* WEIGHT_PROFILES.get(weight_profile, WEIGHT_PROFILES["standard"])
WeightsFor(weight_profile) ==
    IF weight_profile \in ProfileNames
    THEN WEIGHT_PROFILES[weight_profile]
    ELSE WEIGHT_PROFILES["standard"]

WeightedScore_Truncate(raw_score, weight) == (raw_score * weight) \div 100

\* round(score * weight, 2): the nearest hundredth of the product (no score
\* under test produces a tie; an exact one goes to the even hundredth)
WeightedScore(raw_score, weight) ==
    LET q == (raw_score * weight) \div 100
        r == (raw_score * weight) % 100
    IN  IF r < 50 THEN q
        ELSE IF r > 50 THEN q + 1
        ELSE IF q % 2 = 0 THEN q ELSE q + 1

\* the raw score of a dimension among the arguments
RawScore(scores, dim) ==
    CASE dim = "compliance" -> scores.compliance_score
      [] dim = "empathy" -> scores.empathy_score
      [] dim = "resolution" -> scores.resolution_score
      [] dim = "process_adherence" -> scores.process_adherence_score

\* the breakdown dict
Breakdown(scores, weights) ==
    [dim \in {Dimensions[i] : i \in 1..Len(Dimensions)} |->
        [raw_score |-> RawScore(scores, dim),
         weight |-> weights[dim],
         weighted_score |-> WeightedScore(RawScore(scores, dim), weights[dim])]]

Overall_ThreeDimensions(breakdown) ==
    breakdown["compliance"].weighted_score + breakdown["empathy"].weighted_score
    + breakdown["resolution"].weighted_score

\* round(sum(weighted scores), 2): the weighted scores are whole hundredths,
\* so is their sum
Overall(breakdown) ==
    breakdown["compliance"].weighted_score + breakdown["empathy"].weighted_score
    + breakdown["resolution"].weighted_score
    + breakdown["process_adherence"].weighted_score

PerformanceBand_StrictBoundaries(overall) ==
    IF overall > 9000 THEN "exceeds_expectations"
    ELSE IF overall > 7500 THEN "meets_expectations"
    ELSE IF overall > 6000 THEN "needs_improvement"
    ELSE "critical"

\* the band chosen from overall
PerformanceBand(overall) ==
    IF overall >= 9000 THEN "exceeds_expectations"
    ELSE IF overall >= 7500 THEN "meets_expectations"
    ELSE IF overall >= 6000 THEN "needs_improvement"
    ELSE "critical"

\* QAScorecardCalculator._run, the dict it dumps
QAScorecardCalculator(scores, weight_profile) ==
    LET breakdown == Breakdown(scores, WeightsFor(weight_profile))
    IN  [ overall_score |-> Overall(breakdown),
          performance_band |-> PerformanceBand(Overall(breakdown)),
          weight_profile_used |-> weight_profile,
          breakdown |-> breakdown ]

\* scores under test: the ends of the range, the band boundaries, values just
\* below them and a value whose products need rounding
ScoreValues == {0, 5996, 6000, 7496, 7500, 8557, 8996, 9000, 10000}

\* the whole scores 0, 1, ..., 100
IntegerScores == {100 * s : s \in 0..100}

ScoreArgs(c, e, r, p) ==
    [compliance_score |-> c, empathy_score |-> e, resolution_score |-> r,
     process_adherence_score |-> p]

ScorecardScores ==
    {ScoreArgs(c, e, r, p) : c \in ScoreValues, e \in ScoreValues,
                             r \in ScoreValues, p \in ScoreValues}
    \cup {ScoreArgs(s, s, s, s) : s \in IntegerScores}

\* the three named profiles and a name that is not in WEIGHT_PROFILES
ProfileArgs == ProfileNames \cup {"sales_focused"}

ScorecardInit ==
    /\ arg \in [scores : ScorecardScores, weight_profile : ProfileArgs]
    /\ ret = NoValue
    /\ pc = "call"
    /\ FlowIdle

ScorecardCall ==
    /\ pc = "call"
    /\ ret' = QAScorecardCalculator(arg.scores, arg.weight_profile)
    /\ pc' = "returned"
    /\ UNCHANGED arg
    /\ FlowUnchanged

ScorecardNext == ScorecardCall

ScorecardSpec == ScorecardInit /\ [][ScorecardNext]_vars

\* every listener that was started has returned or raised
RunEnded == pc \in {"done", "raised"} /\ escalation # "triggered"

TypeOK ==
    /\ pc \in {"ingest_and_risk_score", "ingest_loop", "ingest_sort", "deep_qa_analysis",
               "deep_qa_loop", "deep_qa_averages", "route_by_compliance",
               "detect_patterns", "generate_coaching_plans", "coaching_loop",
               "compile_final_report", "done", "raised"}
    /\ escalation \in {"idle", "triggered", "done"}
    /\ route_label \in {"", "compliance_escalation", "standard_analysis"}

----------------------------------------------------------------------------
(* Vocabulary of the properties *)

\* the run was seeded with inputs only: every other field at its default
StartedFromDefault ==
    [initial_state EXCEPT !.raw_transcripts = <<>>] = DefaultState

Routed == route_label # ""

AfterStage1 == pc \notin {"ingest_and_risk_score", "ingest_loop", "ingest_sort"}

AfterStage2 ==
    AfterStage1 /\ pc \notin {"deep_qa_analysis", "deep_qa_loop", "deep_qa_averages"}

\* no two supplied transcripts share an interaction id
DistinctTranscripts ==
    \A i, j \in 1..Len(initial_state.raw_transcripts) :
        i # j => initial_state.raw_transcripts[i].interaction_id
                    # initial_state.raw_transcripts[j].interaction_id

CriticalIdx == {i \in 1..Len(state.qa_evaluations) :
                   state.qa_evaluations[i].compliance_severity = "critical"}

Count(s, id) == Cardinality({i \in 1..Len(s) : s[i].interaction_id = id})

NoInputError == Error("No transcripts provided for analysis", "")
NoRiskScoresError == Error("No risk scores available for QA analysis", "")
NoEvaluationsError == Error("No QA evaluations available for pattern analysis", "")

----------------------------------------------------------------------------
(* Properties *)

\* C1: no exception escapes a stage method, and a run that has ended has
\* executed compile_final_report, whatever the Analysis Service returned.
C1_PipelineReachesTerminalStage ==
    /\ pc # "raised"
    /\ RunEnded => executed["compile_final_report"] = 1

\* C2: in a run started from a default state processing_status is one of
\* pending, failed_no_input, complete, and it is complete once the run has ended.
C2_StatusCompleteAtEnd ==
    StartedFromDefault =>
        /\ state.processing_status \in {"pending", "failed_no_input", "complete"}
        /\ RunEnded => state.processing_status = "complete"

\* C3: on the escalation branch detect_patterns (and so every stage after it)
\* starts only after handle_compliance_escalation has written its report.
C3_EscalationBeforePatterns ==
    (route_label = "compliance_escalation" /\ executed["detect_patterns"] >= 1)
        => escalation = "done"

\* C4: detect_patterns, generate_coaching_plans and compile_final_report each
\* execute exactly once per run, in that order, on either router label.
C4_JoinFiresOnce ==
    /\ executed["detect_patterns"] <= 1
    /\ executed["generate_coaching_plans"] <= executed["detect_patterns"]
    /\ executed["compile_final_report"] <= executed["generate_coaching_plans"]
    /\ RunEnded =>
          /\ executed["detect_patterns"] = 1
          /\ executed["generate_coaching_plans"] = 1
          /\ executed["compile_final_report"] = 1

\* the router's postcondition: the flag is set iff a critical evaluation exists,
\* and critical_violations is the critical evaluations' records, in order
RouterPostcondition ==
    LET critical == SelectSeq(state.qa_evaluations,
                              LAMBDA e : e.compliance_severity = "critical")
    IN  /\ state.has_critical_violations <=> (CriticalIdx # {})
        /\ Len(state.critical_violations) = Cardinality(CriticalIdx)
        /\ \A k \in 1..Len(critical) :
              /\ k <= Len(state.critical_violations)
              /\ state.critical_violations[k].interaction_id = critical[k].interaction_id
              /\ state.critical_violations[k].agent_id = critical[k].agent_id
              /\ state.critical_violations[k].issues = critical[k].compliance_issues

\* C5 as stated: after route_by_compliance, in every run, has_critical_violations
\* is true iff some evaluation is critical and critical_violations holds one
\* record per critical evaluation.
C5_RouterCorrectness_AnyStart == Routed => RouterPostcondition

\* C5 as amended: the same, for a run in which the router found
\* has_critical_violations false and critical_violations empty.
C5_RouterCorrectness ==
    (Routed /\ ~pre_route.has_critical_violations /\ pre_route.critical_violations = <<>>)
        => RouterPostcondition

C5_Witness ==
    /\ Routed
    /\ ~pre_route.has_critical_violations
    /\ Cardinality(CriticalIdx) = 2
    /\ Len(state.critical_violations) = 2

\* C6: when some evaluation is critical, the run that has ended has
\* has_critical_violations true, an escalation report naming every critical
\* evaluation's interaction id, and processing_status complete.
C6_EscalationEndToEnd ==
    (RunEnded /\ CriticalIdx # {}) =>
        /\ state.has_critical_violations
        /\ state.compliance_escalation_report # <<>>
        /\ \A i \in CriticalIdx :
              state.qa_evaluations[i].interaction_id
                  \in Range(state.compliance_escalation_report)
        /\ state.processing_status = "complete"

\* C7: when no evaluation is critical the router returns standard_analysis,
\* handle_compliance_escalation never executes, and has_critical_violations,
\* critical_violations and compliance_escalation_report stay as the router
\* found them.
C7_StandardPathFrame ==
    (Routed /\ CriticalIdx = {}) =>
        /\ route_label = "standard_analysis"
        /\ executed["handle_compliance_escalation"] = 0
        /\ escalation = "idle"
        /\ DecisionFields(state) = pre_route

C7_Witness ==
    /\ pc = "done"
    /\ route_label = "standard_analysis"
    /\ state.qa_evaluations # <<>>
    /\ state.has_critical_violations
    /\ state.compliance_escalation_report = <<"previous report">>

\* what a run with zero transcripts does, stage by stage
ZeroTranscriptRun ==
    /\ pc \notin {"raised", "ingest_loop", "ingest_sort", "deep_qa_loop",
                  "deep_qa_averages", "coaching_loop"}
    /\ executed["handle_compliance_escalation"] = 0
    /\ executed["ingest_and_risk_score"] = 1 =>
          /\ Len(state.risk_scores) = Len(initial_state.risk_scores)
          /\ state.transcripts_processed = initial_state.transcripts_processed
          /\ state.transcripts_failed = initial_state.transcripts_failed
          /\ Len(state.errors) >= Len(initial_state.errors) + 1
          /\ state.errors[Len(initial_state.errors) + 1] = NoInputError
    /\ (executed["ingest_and_risk_score"] = 1 /\ executed["deep_qa_analysis"] = 0) =>
          /\ Len(state.errors) = Len(initial_state.errors) + 1
          /\ state.processing_status = "failed_no_input"
    /\ (executed["deep_qa_analysis"] = 1 /\ executed["detect_patterns"] = 0) =>
          state.errors = initial_state.errors \o <<NoInputError, NoRiskScoresError>>
    /\ executed["detect_patterns"] = 1 =>
          state.errors = initial_state.errors
                            \o <<NoInputError, NoRiskScoresError, NoEvaluationsError>>
    /\ pc = "done" =>
          /\ \A s \in Stages \ {"handle_compliance_escalation"} : executed[s] = 1
          /\ state.risk_scores = <<>>
          /\ state.qa_evaluations = <<>>
          /\ state.pattern_insights = <<>>
          /\ state.coaching_plans = <<>>

\* C8 as stated: with zero transcripts, in every run, stage 1 appends one error,
\* sets failed_no_input, creates no RiskScore and changes no counter; every later
\* stage runs, stages 2 and 5 append their empty-input errors, and no risk score,
\* evaluation, pattern or coaching plan exists at the end.
C8_ZeroTranscripts_AnyStart ==
    initial_state.raw_transcripts = <<>> => ZeroTranscriptRun

\* C8 as amended: the same, for a run started from a default state.
C8_ZeroTranscripts ==
    (initial_state.raw_transcripts = <<>> /\ StartedFromDefault) => ZeroTranscriptRun

C8_Witness ==
    /\ initial_state = DefaultState
    /\ pc = "done"
    /\ state.processing_status = "complete"
    /\ Len(state.errors) = 3

\* the risk call of the step raised or returned nothing parseable
RiskCallFailed(call) == call.stage = "risk" /\ call.kind \in {"raise", "text"}

\* C9: a stage-1 pass whose risk call raises or returns unparsable output
\* appends exactly the default RiskScore (the transcript's id, 0.5,
\* ["error_during_scoring"], medium) and one error, adds 1 to
\* transcripts_failed and leaves transcripts_processed alone.
C9_FailedScoringDefault ==
    [][ (pc = "ingest_loop" /\ RiskCallFailed(last_call')) =>
          /\ state'.risk_scores =
                Append(state.risk_scores,
                       [ interaction_id |-> state.raw_transcripts[idx].interaction_id,
                         risk_score |-> 5,
                         risk_factors |-> <<"error_during_scoring">>,
                         priority_for_review |-> "medium" ])
          /\ state'.transcripts_failed = state.transcripts_failed + 1
          /\ state'.transcripts_processed = state.transcripts_processed
          /\ Len(state'.errors) = Len(state.errors) + 1
          /\ SubSeq(state'.errors, 1, Len(state.errors)) = state.errors ]_vars

C9_Witness ==
    /\ pc = "ingest_sort"
    /\ last_call.stage = "risk"
    /\ last_call.kind = "text"
    /\ ~last_call.parsed
    /\ state.transcripts_failed = 2
    /\ state.transcripts_processed = 0

\* C10: after stage 1 of a run started with empty risk_scores, zero counters and
\* at least one transcript, risk_scores holds one RiskScore per transcript,
\* carrying that transcript's interaction id, and the two counters add up to the
\* number of transcripts.
C10_OneRiskScorePerTranscript ==
    ( /\ AfterStage1
      /\ initial_state.risk_scores = <<>>
      /\ initial_state.transcripts_processed = 0
      /\ initial_state.transcripts_failed = 0
      /\ initial_state.raw_transcripts # <<>> ) =>
        /\ Len(state.risk_scores) = Len(state.raw_transcripts)
        /\ \A id \in InteractionIds :
              Count(state.risk_scores, id) = Count(state.raw_transcripts, id)
        /\ state.transcripts_processed + state.transcripts_failed
              = Len(state.raw_transcripts)

\* the list is ordered from the highest risk_score to the lowest
NonIncreasing(s) == \A i, j \in 1..Len(s) : i < j => s[i].risk_score >= s[j].risk_score

\* after is a reordering of before that never swaps two entries of equal score
StableReordering(before, after) ==
    /\ Len(after) = Len(before)
    /\ \E p \in [1..Len(before) -> 1..Len(before)] :
          /\ \A i, j \in 1..Len(before) : i # j => p[i] # p[j]
          /\ \A i \in 1..Len(before) : after[i] = before[p[i]]
          /\ \A i, j \in 1..Len(before) :
                (i < j /\ after[i].risk_score = after[j].risk_score) => p[i] < p[j]

LastEvaluation(st) == st.qa_evaluations[Len(st.qa_evaluations)]

\* C12: a stage-2 pass over a risk score of priority "low" whose transcript
\* exists appends exactly one evaluation, the fixed default (85, 75, 80, 80, 80,
\* no issues, no improvement areas, severity none) under the risk score's id,
\* calls no service and appends no error.
C12_LowPriorityDefault ==
    [][ ( /\ pc = "deep_qa_loop"
          /\ state.risk_scores[idx].priority_for_review = "low"
          /\ \E t \in Range(state.raw_transcripts) :
                t.interaction_id = state.risk_scores[idx].interaction_id ) =>
          /\ Len(state'.qa_evaluations) = Len(state.qa_evaluations) + 1
          /\ SubSeq(state'.qa_evaluations, 1, Len(state.qa_evaluations))
                = state.qa_evaluations
          /\ LET e == LastEvaluation(state')
             IN  /\ e.interaction_id = state.risk_scores[idx].interaction_id
                 /\ e.compliance_score = 85
                 /\ e.empathy_score = 75
                 /\ e.resolution_score = 80
                 /\ e.process_adherence_score = 80
                 /\ e.overall_score = 80
                 /\ e.compliance_issues = <<>>
                 /\ e.improvement_areas = <<>>
                 /\ e.compliance_severity = "none"
          /\ last_call'.stage # "qa"
          /\ state'.errors = state.errors ]_vars

\* the pass that has just ended was over a low-priority risk score
C12_Witness ==
    /\ pc \in {"deep_qa_loop", "deep_qa_averages"}
    /\ idx >= 2
    /\ state.risk_scores[idx - 1].priority_for_review = "low"
    /\ last_call.stage = ""
    /\ state.qa_evaluations # <<>>
    /\ LastEvaluation(state).compliance_score = 85
    /\ LastEvaluation(state).overall_score = 80

\* the QA call of the step raised, returned nothing parseable, or returned
\* values that QAEvaluation rejects
QACallFailed(call) == call.stage = "qa" /\ ~call.ok

\* C13: a stage-2 pass whose QA call raises, returns unparsable output or
\* returns values that fail validation appends exactly one evaluation (five
\* scores of 50, ["evaluation_failed"], ["Unable to evaluate - review
\* manually"], severity none, the risk score's id, the transcript's agent id)
\* and one error, and the loop goes on to the next risk score.
C13_FailedEvaluationDefault ==
    [][ (pc = "deep_qa_loop" /\ QACallFailed(last_call')) =>
          /\ state.risk_scores[idx].priority_for_review # "low"
          /\ Len(state'.qa_evaluations) = Len(state.qa_evaluations) + 1
          /\ SubSeq(state'.qa_evaluations, 1, Len(state.qa_evaluations))
                = state.qa_evaluations
          /\ LET e == LastEvaluation(state')
             IN  /\ e.interaction_id = state.risk_scores[idx].interaction_id
                 /\ \E t \in Range(state.raw_transcripts) :
                       /\ t.interaction_id = state.risk_scores[idx].interaction_id
                       /\ t.agent_id = e.agent_id
                 /\ \A f \in ScoreFields : e[f] = 50
                 /\ e.compliance_issues = <<"evaluation_failed">>
                 /\ e.improvement_areas = <<"Unable to evaluate - review manually">>
                 /\ e.compliance_severity = "none"
          /\ Len(state'.errors) = Len(state.errors) + 1
          /\ SubSeq(state'.errors, 1, Len(state.errors)) = state.errors
          /\ idx' = idx + 1
          /\ pc' = IF idx < Len(state.risk_scores)
                   THEN "deep_qa_loop" ELSE "deep_qa_averages" ]_vars

\* a QA result that parsed but failed validation, followed by another pass
C13_Witness ==
    /\ pc = "deep_qa_loop"
    /\ idx = 2
    /\ last_call.stage = "qa"
    /\ last_call.kind = "raw"
    /\ last_call.parsed
    /\ ~last_call.ok
    /\ Len(state.qa_evaluations) = 1
    /\ state.qa_evaluations[1].overall_score = 50

\* two characters are the same letter, upper or lower case
SameLetter(c, d) ==
    \/ c = d
    \/ \E i \in 1..Len(Uppercase) : {c, d} = {Uppercase[i], Lowercase[i]}

EqualsIgnoringCase(text, word) ==
    /\ Len(text) = Len(word)
    /\ \A i \in 1..Len(word) : SameLetter(text[i], word[i])

\* the severity a compliance_severity value stands for
NamedSeverity(value) ==
    IF value # AbsentList
       /\ \E name \in {"critical", "major", "minor"} :
             EqualsIgnoringCase(value, Spelled(name))
    THEN CHOOSE name \in {"critical", "major", "minor"} :
             EqualsIgnoringCase(value, Spelled(name))
    ELSE "none"

\* C14: the severity of the appended evaluation is the member whose name the
\* result's compliance_severity equals ignoring letter case, and none for every
\* other value (absent, empty, another word); no value makes the pass fail: no
\* error is appended and the other fields of the result reach the evaluation.
C14_SeverityMappingTotal ==
    pc = "deep_qa_averages" =>
        /\ ret = NamedSeverity(arg)
        /\ last_call.ok
        /\ state.errors = <<>>
        /\ Len(state.qa_evaluations) = 1
        /\ LET e == state.qa_evaluations[1]
           IN  /\ e.compliance_severity = NamedSeverity(arg)
               /\ e.interaction_id = "T1"
               /\ e.agent_id = "A1"
               /\ e.compliance_score = 40
               /\ e.empathy_score = 50
               /\ e.overall_score = 90
               /\ e.compliance_issues = <<"no disclosure">>
               /\ e.improvement_areas = <<"listen more">>

\* a mixed-case spelling of major has been mapped
C14_Witness ==
    /\ pc = "deep_qa_averages"
    /\ arg = << "M", "a", "J", "o", "R" >>
    /\ state.qa_evaluations[1].compliance_severity = "major"

\* an unknown word has been mapped to none without an error
C14_WitnessUnknown ==
    /\ pc = "deep_qa_averages"
    /\ arg = << "S", "E", "V", "E", "R", "E" >>
    /\ state.qa_evaluations[1].compliance_severity = "none"
    /\ state.errors = <<>>

\* C15: after stage 2 of a run started from a default state with transcripts
\* of distinct ids, no two evaluations share an interaction id and every
\* evaluation carries the id of a supplied transcript, whatever ids the risk
\* and QA services returned.
C15_OneEvaluationPerTranscript ==
    (AfterStage2 /\ StartedFromDefault /\ DistinctTranscripts) =>
        /\ \A i, j \in 1..Len(state.qa_evaluations) :
              i # j => state.qa_evaluations[i].interaction_id
                          # state.qa_evaluations[j].interaction_id
        /\ \A i \in 1..Len(state.qa_evaluations) :
              \E t \in Range(state.raw_transcripts) :
                  t.interaction_id = state.qa_evaluations[i].interaction_id

AverageKeys ==
    [ compliance |-> "compliance_score", empathy |-> "empathy_score",
      resolution |-> "resolution_score",
      process_adherence |-> "process_adherence_score", overall |-> "overall_score" ]

\* the sum of one score over the first k evaluations
RECURSIVE ScoreTotal(_, _, _)
ScoreTotal(evals, f, k) ==
    IF k = 0 THEN 0 ELSE ScoreTotal(evals, f, k - 1) + evals[k][f]

\* tenths is a multiple of 0.1 nearest to total / n (either one at a tie)
MeanToOneDecimal(tenths, total, n) ==
    LET diff == tenths * n - 10 * total
    IN  2 * diff <= n /\ 2 * diff >= 0 - n

\* the lines of the executive summary that print the five average scores
ScoreLines(summary) ==
    {i \in 1..Len(summary) :
        summary[i].label \in {"Overall", "Compliance", "Empathy", "Resolution",
                              "Process Adherence"}}

AveragesOfEvaluations ==
    (AfterStage2 /\ state.qa_evaluations # <<>>) =>
        /\ DOMAIN state.average_scores = DOMAIN AverageKeys
        /\ \A key \in DOMAIN AverageKeys :
              MeanToOneDecimal(state.average_scores[key],
                               ScoreTotal(state.qa_evaluations, AverageKeys[key],
                                          Len(state.qa_evaluations)),
                               Len(state.qa_evaluations))

NoScorePrinted ==
    /\ Cardinality(ScoreLines(state.executive_summary)) = 5
    /\ \A i \in ScoreLines(state.executive_summary) :
          state.executive_summary[i].value = "N/A"

C16_WitnessEmpty ==
    /\ executed["compile_final_report"] = 1
    /\ state.qa_evaluations = <<>>
    /\ NoScorePrinted

\* the agents with an evaluation below 70 overall or of severity critical or major
AgentsToCoach(st) ==
    {a \in AgentIds :
        \E i \in 1..Len(st.qa_evaluations) :
            /\ st.qa_evaluations[i].agent_id = a
            /\ \/ st.qa_evaluations[i].overall_score < 70
               \/ st.qa_evaluations[i].compliance_severity \in {"critical", "major"}}

ServiceFailed(call) == call.stage # "" /\ (call.kind = "raise" \/ ~call.parsed)

\* the error each stage appends when its service call fails
FailureMessage(stage) ==
    CASE stage = "risk"     -> "Failed to risk-score"
      [] stage = "qa"       -> "Failed QA analysis"
      [] stage = "pattern"  -> "Pattern analysis failed"
      [] stage = "coaching" -> "Failed coaching plan"

\* C18: whenever the service call of a step (stage 1, 2, 5 or 6) raised or
\* returned output with no structured record, that step appended the stage's
\* error, so the list of errors ends with it.
C18_EveryFailureRecorded ==
    ServiceFailed(last_call) =>
        /\ state.errors # <<>>
        /\ state.errors[Len(state.errors)].msg = FailureMessage(last_call.stage)

\* the errors stage 6 has appended
CoachingErrors(st) ==
    {i \in 1..Len(st.errors) : st.errors[i].msg = "Failed coaching plan"}

\* C19: stage 6 processes every entry of agents_needing_coaching, each entry
\* giving one coaching plan or one error: when the run has ended after stage 6
\* was entered, the plans and errors it appended are as many as the entries.
C19_EveryEntryProcessed ==
    (RunEnded /\ executed["generate_coaching_plans"] = 1) =>
        Len(state.coaching_plans) - Len(initial_state.coaching_plans)
            + Cardinality(CoachingErrors(state))
          = Len(state.agents_needing_coaching)

\* no value occurs twice in the list
NoDuplicates(list) == \A i, j \in 1..Len(list) : i # j => list[i] # list[j]

\* C20: in a run started from a default state, once stage 5 has run
\* agents_needing_coaching holds no agent id twice, whether the service or the
\* fallback rule set it, and coaching_plans holds at most one plan per agent id.
C20_NoDuplicateAgents ==
    (StartedFromDefault /\ executed["detect_patterns"] = 1) =>
        /\ NoDuplicates(state.agents_needing_coaching)
        /\ \A i, j \in 1..Len(state.coaching_plans) :
              i # j => state.coaching_plans[i].agent_id # state.coaching_plans[j].agent_id

\* short is a prefix of long
IsPrefix(short, long) ==
    Len(short) <= Len(long) /\ SubSeq(long, 1, Len(short)) = short

\* C21: errors is append-only: the seeding step of stage 1 leaves a list that
\* starts with the errors of initial_state, and every other step leaves a list
\* that starts with the list it found; nothing is removed, reordered or replaced.
C21_ErrorsAppendOnly ==
    [][ IF pc = "ingest_and_risk_score"
        THEN IsPrefix(initial_state.errors, state'.errors)
        ELSE IsPrefix(state.errors, state'.errors) ]_vars

\* a seeded error followed by errors of three stages, at the end of the run
C21_Witness ==
    /\ pc = "done"
    /\ Len(state.errors) >= 4
    /\ state.errors[1] = Error("previous error", "")
    /\ state.errors[2].msg = "Failed to risk-score"
    /\ \E i \in 3..Len(state.errors) : state.errors[i].msg = "Failed QA analysis"
    /\ state.errors[Len(state.errors)].msg = "Failed coaching plan"

\* the prose on both sides of the record is free of a token
ProseWithout(token) ==
    /\ \A k \in 1..Len(arg.prefix) : arg.prefix[k] # token
    /\ \A k \in 1..Len(arg.suffix) : arg.suffix[k] # token

ContainsIgnoringCase(text, p) ==
    \E i \in 1..(Len(text) - Len(p) + 1) :
        \A k \in 1..Len(p) : SameLetter(text[i + k - 1], p[k])

\* every phrase the scanner looks for
ScannerTriggers ==
    UNION { Range(table[k].patterns) :
              table \in {compliance_patterns, complaint_patterns, process_patterns},
              k \in 1..3 }
    \cup Range(disclosure_phrases)

TriggerFree(text) == \A p \in ScannerTriggers : ~ContainsIgnoringCase(text, p)

\* C23: for a transcript with no disclosure phrase and no other trigger the
\* scanner returns, on voice and on chat, exactly one flag (missing_disclosure,
\* critical) and risk score 1.00, and on email no flag and risk score 0.10.
C23_DisclosureOnly ==
    (pc = "returned" /\ TriggerFree(arg.transcript_text)) =>
        /\ arg.channel \in {"voice", "chat"} =>
              /\ ret.flags_found = 1
              /\ Len(ret.flags) = 1
              /\ ret.flags[1].category = "missing_disclosure"
              /\ ret.flags[1].severity = "critical"
              /\ ret.risk_score = 100
        /\ arg.channel = "email" =>
              /\ ret.flags_found = 0
              /\ ret.flags = <<>>
              /\ ret.risk_score = 10

\* two greetings on the voice channel: the one flag
C23_Witness ==
    /\ pc = "returned"
    /\ arg.transcript_text = Greeting \o Greeting
    /\ arg.channel = "voice"
    /\ ret.flags_found = 1
    /\ ret.risk_score = 100

\* the weight of a flag, in hundredths
FlagWeight(flag) ==
    IF flag.severity = "critical" THEN 100
    ELSE IF flag.severity = "high" THEN 70 ELSE 40

\* C24: with n >= 1 flags the risk score is min(1.0, w + 0.05 (n - 1)), w the
\* largest weight among the flags, and 0.1 with none; priority is high from
\* 0.7, medium from 0.4, else low: low exactly when there is no flag, and high
\* whenever a flag is critical.
C24_RiskScoreFormula ==
    pc = "returned" =>
        LET n == Len(ret.flags)
            heaviest == CHOOSE k \in 1..n :
                           \A other \in 1..n :
                               FlagWeight(ret.flags[k]) >= FlagWeight(ret.flags[other])
            raised == FlagWeight(ret.flags[heaviest]) + 5 * (n - 1)
        IN  /\ ret.flags_found = n
            /\ n >= 1 => ret.risk_score = (IF raised > 100 THEN 100 ELSE raised)
            /\ n = 0 => ret.risk_score = 10
            /\ ret.risk_score >= 70 => ret.priority = "high"
            /\ (ret.risk_score >= 40 /\ ret.risk_score < 70) => ret.priority = "medium"
            /\ ret.risk_score < 40 => ret.priority = "low"
            /\ ret.priority = "low" <=> n = 0
            /\ (\E k \in 1..n : ret.flags[k].severity = "critical")
                  => ret.priority = "high"

\* seven flags, all medium: 0.4 + 6 x 0.05 reaches 0.70 and priority high
C24_Witness ==
    /\ pc = "returned"
    /\ ret.flags_found = 7
    /\ \A k \in 1..7 : ret.flags[k].severity = "medium"
    /\ ret.risk_score = 70
    /\ ret.priority = "high"
(***************************************************************************)
(* Compliance Pattern Matcher                                              *)
(***************************************************************************)

\* the entries of a requirement set with their kind, in the order checked
RequirementsChecked(requirement_set) ==
    LET reqs == RequirementsFor(requirement_set)
    IN  [i \in 1..Len(reqs.must_contain) |->
            [kind |-> "must_contain", req |-> reqs.must_contain[i]]]
        \o [i \in 1..Len(reqs.must_not_contain) |->
            [kind |-> "must_not_contain", req |-> reqs.must_not_contain[i]]]

\* some phrase of the requirement occurs in the transcript, whatever its case
SomePhraseOccurs(req, text) ==
    \E i \in 1..Len(req.phrases) : ContainsIgnoringCase(text, req.phrases[i])

\* a rate in tenths is 100 * passed / total to the nearest tenth
RateToOneDecimal(tenths, passed, total) ==
    LET diff == tenths * total - 1000 * passed
    IN  2 * diff <= total /\ 2 * diff >= 0 - total

\* C25: every must_contain requirement is PASS exactly when one of its
\* phrases occurs in the transcript regardless of case, every
\* must_not_contain requirement is PASS exactly when none occurs; passed plus
\* failed is total_checks, and compliance_rate is 100 * passed / total_checks
\* to one decimal (100.0 without checks)
C25_MatcherRule ==
    pc = "returned" =>
        LET checked == RequirementsChecked(arg.requirement_set)
            passing == {i \in 1..Len(checked) :
                          (checked[i].kind = "must_contain")
                          <=> SomePhraseOccurs(checked[i].req, arg.transcript_text)}
        IN  /\ Len(ret.results) = Len(checked)
            /\ \A i \in 1..Len(checked) :
                 /\ ret.results[i].requirement = checked[i].req.requirement
                 /\ ret.results[i].type = checked[i].kind
                 /\ ret.results[i].status = "PASS" <=> i \in passing
                 /\ ret.results[i].status \in {"PASS", "FAIL"}
            /\ ret.total_checks = Len(checked)
            /\ ret.passed = Cardinality(passing)
            /\ ret.passed + ret.failed = ret.total_checks
            /\ IF ret.total_checks = 0
               THEN ret.compliance_rate = 1000
               ELSE RateToOneDecimal(ret.compliance_rate, ret.passed,
                                     ret.total_checks)

\* a call on the set "sales" returned with one must_contain requirement
\* passed on a phrase written in capitals, another failed, and the
\* must_not_contain requirement failed: 1 of 4, rate 25.0
C25_Witness ==
    /\ pc = "returned"
    /\ arg.requirement_set = "sales"
    /\ arg.transcript_text = SalesPitch
    /\ ret.results[3].status = "PASS"
    /\ ret.results[1].status = "FAIL"
    /\ ret.results[4].status = "FAIL"
    /\ ret.passed = 1
    /\ ret.compliance_rate = 250

\* the phrases of the requirement set general
GeneralPhrases(kind, requirement) ==
    LET reqs == REQUIREMENT_SETS["general"][kind]
        i == CHOOSE j \in 1..Len(reqs) : reqs[j].requirement = requirement
    IN  {reqs[i].phrases[k] : k \in 1..Len(reqs[i].phrases)}

DisclosurePhrases == GeneralPhrases("must_contain", "call_recording_disclosure")

IdentityPhrases == GeneralPhrases("must_contain", "identity_verification")

ForbiddenPhrases ==
    GeneralPhrases("must_not_contain", "full_card_readback")
    \cup GeneralPhrases("must_not_contain", "ssn_spoken")

OccursAny(text, phrases) == \E p \in phrases : ContainsIgnoringCase(text, p)

\* C26 as stated: under the set general a transcript with a disclosure
\* phrase and no forbidden phrase has rate 100.0, one with neither has 50.0
C26_GeneralRates_AnyTranscript ==
    (pc = "returned" /\ arg.requirement_set = "general"
        /\ ~OccursAny(arg.transcript_text, ForbiddenPhrases))
    => ret.compliance_rate =
          IF OccursAny(arg.transcript_text, DisclosurePhrases) THEN 1000 ELSE 500

\* C26: under the set general a transcript with a disclosure phrase, an
\* identity verification phrase and no forbidden phrase has rate 100.0, and
\* one with no disclosure phrase, no identity verification phrase and no
\* forbidden phrase has rate 50.0
C26_GeneralRates ==
    (pc = "returned" /\ arg.requirement_set = "general"
        /\ ~OccursAny(arg.transcript_text, ForbiddenPhrases))
    => /\ (OccursAny(arg.transcript_text, DisclosurePhrases)
             /\ OccursAny(arg.transcript_text, IdentityPhrases))
          => ret.compliance_rate = 1000
       /\ (~OccursAny(arg.transcript_text, DisclosurePhrases)
             /\ ~OccursAny(arg.transcript_text, IdentityPhrases))
          => ret.compliance_rate = 500

\* a call on the set general returned for a transcript with a disclosure and
\* an identity check and nothing forbidden
C26_Witness ==
    /\ pc = "returned"
    /\ arg.requirement_set = "general"
    /\ arg.transcript_text = Disclosure \o IdentityCheck
    /\ ret.compliance_rate = 1000

\* a call on the set general returned for a transcript with nothing but a
\* greeting
C26_WitnessNeither ==
    /\ pc = "returned"
    /\ arg.requirement_set = "general"
    /\ arg.transcript_text = Greeting
    /\ ret.compliance_rate = 500
(***************************************************************************)
(* Scorecard Calculator                                                    *)
(***************************************************************************)

\* C27: the performance band is determined by the overall score alone:
\* exceeds_expectations from 90, meets_expectations from 75 and below 90,
\* needs_improvement from 60 and below 75, critical below 60; the values
\* 60, 75 and 90 themselves fall in the higher band
C27_BandThresholds ==
    pc = "returned" =>
        /\ ret.performance_band = "exceeds_expectations"
              <=> ret.overall_score >= 9000
        /\ ret.performance_band = "meets_expectations"
              <=> (ret.overall_score >= 7500 /\ ret.overall_score < 9000)
        /\ ret.performance_band = "needs_improvement"
              <=> (ret.overall_score >= 6000 /\ ret.overall_score < 7500)
        /\ ret.performance_band = "critical" <=> ret.overall_score < 6000

\* a call returned an overall score of exactly 75 from unequal inputs, in
\* the band meets_expectations
C27_Witness ==
    /\ pc = "returned"
    /\ ret.overall_score = 7500
    /\ arg.scores.compliance_score # arg.scores.empathy_score
    /\ ret.performance_band = "meets_expectations"

\* all four scores of a call equal s hundredths
AllScores(s) ==
    /\ arg.scores.compliance_score = s
    /\ arg.scores.empathy_score = s
    /\ arg.scores.resolution_score = s
    /\ arg.scores.process_adherence_score = s

\* C28 as stated: under the standard profile (90,90,90,90) gives 90.0 and
\* exceeds_expectations, (50,50,50,50) gives 50.0 and needs_improvement
C28_StandardExamples_AsStated ==
    (pc = "returned" /\ arg.weight_profile = "standard")
    => /\ AllScores(9000)
          => /\ ret.overall_score = 9000
             /\ ret.performance_band = "exceeds_expectations"
       /\ AllScores(5000)
          => /\ ret.overall_score = 5000
             /\ ret.performance_band = "needs_improvement"

\* C28: under the standard profile (90,90,90,90) gives 90.0 and
\* exceeds_expectations, (50,50,50,50) gives 50.0 and critical
C28_StandardExamples ==
    (pc = "returned" /\ arg.weight_profile = "standard")
    => /\ AllScores(9000)
          => /\ ret.overall_score = 9000
             /\ ret.performance_band = "exceeds_expectations"
       /\ AllScores(5000)
          => /\ ret.overall_score = 5000
             /\ ret.performance_band = "critical"

\* the call (50,50,50,50) under the standard profile returned
C28_Witness ==
    /\ pc = "returned"
    /\ arg.weight_profile = "standard"
    /\ AllScores(5000)
    /\ ret.overall_score = 5000

\* a value in hundredths is product / 100 to the nearest hundredth
ToTwoDecimals(hundredths, product) ==
    LET diff == 100 * hundredths - product
    IN  diff <= 50 /\ diff >= 0 - 50

\* the weights a call uses: the named profile's, the standard ones for an
\* unknown name
UsedWeights == WeightsFor(arg.weight_profile)

\* C29: the four weights of every profile sum to 1.0; each weighted score is
\* raw times weight to two decimals and overall is the sum of the weighted
\* scores; four equal whole scores s give overall s under every profile, and
\* overall stays within 0..100 for scores within 0..100
C29_WeightedSum ==
    /\ \A name \in ProfileNames :
         WEIGHT_PROFILES[name].compliance + WEIGHT_PROFILES[name].empathy
         + WEIGHT_PROFILES[name].resolution
         + WEIGHT_PROFILES[name].process_adherence = 100
    /\ pc = "returned" =>
         /\ \A i \in 1..Len(Dimensions) :
              LET line == ret.breakdown[Dimensions[i]]
              IN  /\ line.raw_score = RawScore(arg.scores, Dimensions[i])
                  /\ line.weight = UsedWeights[Dimensions[i]]
                  /\ ToTwoDecimals(line.weighted_score,
                                   line.raw_score * line.weight)
         /\ ret.overall_score =
              ret.breakdown["compliance"].weighted_score
              + ret.breakdown["empathy"].weighted_score
              + ret.breakdown["resolution"].weighted_score
              + ret.breakdown["process_adherence"].weighted_score
         /\ \A s \in IntegerScores : AllScores(s) => ret.overall_score = s
         /\ ret.overall_score >= 0 /\ ret.overall_score <= 10000

\* a call under compliance_heavy returned with 85.57 x 0.45 = 38.50650
\* rounded up to 38.51
C29_Witness ==
    /\ pc = "returned"
    /\ arg.weight_profile = "compliance_heavy"
    /\ arg.scores.compliance_score = 8557
    /\ ret.breakdown["compliance"].weighted_score = 3851

\* a call with four equal whole scores of 37 under cx_focused returned 37
C29_WitnessEqual ==
    /\ pc = "returned"
    /\ arg.weight_profile = "cx_focused"
    /\ AllScores(3700)
    /\ ret.overall_score = 3700

(***************************************************************************)
(* Stage 1 on a parseable record                                           *)
(***************************************************************************)

\* the risk call of the last step returned a record: a typed one, or raw
\* text from which a record, possibly empty, was parsed
RiskRecordReturned(call) == call.stage = "risk" /\ call.kind \in {"typed", "raw"}

\* the record had a key and RiskScore's validation refused its values
RejectedByValidation(call) == call.parsed /\ ~call.ok

\* the record with each absent field replaced by its default
WithDefaults(res, t) ==
    [ interaction_id |->
        IF res.interaction_id = Absent THEN t.interaction_id
        ELSE res.interaction_id,
      risk_score |-> IF res.risk_score = AbsentNum THEN 5 ELSE res.risk_score,
      risk_factors |->
        IF res.risk_factors = AbsentList THEN <<>> ELSE res.risk_factors,
      priority_for_review |->
        IF res.priority_for_review = Absent THEN "medium"
        ELSE res.priority_for_review ]

\* C30: after a stage-1 pass whose risk call returned a parseable record
\* (with values RiskScore accepts), the risk score appended is that record
\* with each absent field at its default (0.5, no factors, "medium", the
\* transcript's id), for every subset of absent fields including all of
\* them; the pass counts as a success: after the first pass
\* transcripts_processed is one more than at the start and transcripts_failed
\* and errors are as at the start
C30_ParseableRecordSucceeds ==
    (pc \in {"ingest_loop", "ingest_sort"} /\ RiskRecordReturned(last_call)
        /\ ~RejectedByValidation(last_call))
    => LET t == state.raw_transcripts[last_call.item]
           appended == state.risk_scores[Len(state.risk_scores)]
       IN  /\ \E res \in RiskResults(t) :
                /\ res.kind = last_call.kind
                /\ appended = WithDefaults(res, t)
           /\ last_call.item = 1 =>
                /\ state.transcripts_processed =
                      initial_state.transcripts_processed + 1
                /\ state.transcripts_failed = initial_state.transcripts_failed
                /\ state.errors = initial_state.errors

(***************************************************************************)
(* Score ranges                                                            *)
(***************************************************************************)

\* the last element of a non-empty list
Last(list) == list[Len(list)]

\* the five scores of an evaluation
FiveScores(e) ==
    {e.compliance_score, e.empathy_score, e.resolution_score,
     e.process_adherence_score, e.overall_score}

\* C31: every stored RiskScore has risk_score within 0.0..1.0 and every
\* stored QAEvaluation has its five scores within 0..100, whatever the
\* service returned; a result refused for an out-of-range value is replaced
\* by the stage's default record (risk 0.5, or all scores 50)
C31_ScoresInRange ==
    /\ \A i \in 1..Len(state.risk_scores) :
         state.risk_scores[i].risk_score >= 0 /\ state.risk_scores[i].risk_score <= 10
    /\ \A i \in 1..Len(state.qa_evaluations) :
         \A score \in FiveScores(state.qa_evaluations[i]) : score >= 0 /\ score <= 100
    /\ (last_call.stage = "risk" /\ RejectedByValidation(last_call))
         => /\ Last(state.risk_scores).risk_score = 5
            /\ Last(state.risk_scores).risk_factors = <<"error_during_scoring">>
    /\ (last_call.stage = "qa" /\ RejectedByValidation(last_call))
         => /\ FiveScores(Last(state.qa_evaluations)) = {50}
            /\ Last(state.qa_evaluations).compliance_issues = <<"evaluation_failed">>

\* a QA result has just been refused for an out-of-range value and the
\* all-50 evaluation stored in its place
C31_Witness ==
    /\ last_call.stage = "qa"
    /\ RejectedByValidation(last_call)
    /\ FiveScores(Last(state.qa_evaluations)) = {50}
    /\ Len(state.errors) >= 1

(***************************************************************************)
(* Stage 2, one risk score at a time                                       *)
(***************************************************************************)

\* some supplied transcript carries the id
TranscriptExists(id) ==
    \E i \in 1..Len(state.raw_transcripts) :
        state.raw_transcripts[i].interaction_id = id

LookupMiss(id) == [msg |-> "Transcript not found for QA analysis", id |-> id]

\* the lookup-miss errors in a list of errors
LookupMisses(errors) ==
    {i \in 1..Len(errors) : errors[i].msg = "Transcript not found for QA analysis"}

\* C32: every pass of the stage-2 loop takes the next risk score in the
\* order of risk_scores and either appends exactly one evaluation and no
\* lookup-miss error (its transcript exists) or appends exactly one
\* lookup-miss error and no evaluation; after each pass the evaluations
\* added plus the lookup-miss errors count the risk scores taken so far
C32_OneOutcomePerRiskScore ==
    [][ pc = "deep_qa_loop" =>
          LET risk == state.risk_scores[idx]
          IN  /\ idx' = idx + 1
              /\ state'.risk_scores = state.risk_scores
              /\ IF TranscriptExists(risk.interaction_id)
                 THEN /\ Len(state'.qa_evaluations) = Len(state.qa_evaluations) + 1
                      /\ IsPrefix(state.qa_evaluations, state'.qa_evaluations)
                      /\ LookupMisses(state'.errors) = LookupMisses(state.errors)
                 ELSE /\ state'.qa_evaluations = state.qa_evaluations
                      /\ state'.errors =
                            Append(state.errors, LookupMiss(risk.interaction_id))
              /\ (Len(state'.qa_evaluations) - Len(initial_state.qa_evaluations))
                   + Cardinality(LookupMisses(state'.errors)) = idx
              /\ (pc' = "deep_qa_averages") <=> idx = Len(state.risk_scores) ]_vars

\* stage 2 has finished a list of two risk scores with one evaluation and
\* one lookup miss
C32_Witness ==
    /\ pc = "deep_qa_averages"
    /\ Len(state.risk_scores) = 2
    /\ Len(state.qa_evaluations) = Len(initial_state.qa_evaluations) + 1
    /\ Cardinality(LookupMisses(state.errors)) = 1

(***************************************************************************)
(* Stage 6: the display name of an agent                                   *)
(***************************************************************************)

\* the name of the first supplied transcript of the agent, the id itself for
\* an agent of no transcript
FirstName(agent_id) ==
    LET ts == state.raw_transcripts
        own == {i \in 1..Len(ts) : ts[i].agent_id = agent_id}
    IN  IF own = {} THEN agent_id
        ELSE ts[CHOOSE i \in own : \A j \in own : i <= j].agent_name

\* C33: after a stage-6 pass whose coaching result left the name to its
\* default, the plan appended carries the name of the first transcript, in
\* input order, of the agent coached, or the agent id itself when no
\* transcript is the agent's
C33_FirstNameWins ==
    (last_call.stage = "coaching" /\ last_call.kind = "raw" /\ last_call.ok)
    => Last(state.coaching_plans).agent_name =
          FirstName(state.agents_needing_coaching[last_call.item])

(***************************************************************************)
(* What each stage writes                                                  *)
(***************************************************************************)

\* the stage a step belongs to: the escalation handler runs beside the
\* chain of the other stages and is known by its own flag
StageOfStep ==
    IF escalation = "triggered" /\ escalation' = "done" THEN "4a"
    ELSE CASE pc \in {"ingest_and_risk_score", "ingest_loop", "ingest_sort"} -> "1"
           [] pc \in {"deep_qa_analysis", "deep_qa_loop", "deep_qa_averages"} -> "2"
           [] pc = "route_by_compliance" -> "3"
           [] pc = "detect_patterns" -> "5"
           [] pc \in {"generate_coaching_plans", "coaching_loop"} -> "6"
           [] pc = "compile_final_report" -> "7"
           [] OTHER -> "none"

\* the fields of the 'Writes' header of each stage, with errors, and
\* processing_status for stages 1 and 7
MayWrite(stage) ==
    CASE stage = "1" -> {"risk_scores", "transcripts_processed", "transcripts_failed",
                         "errors", "processing_status"}
      [] stage = "2" -> {"qa_evaluations", "average_scores", "errors"}
      [] stage = "3" -> {"has_critical_violations", "critical_violations", "errors"}
      [] stage = "4a" -> {"compliance_escalation_report", "errors"}
      [] stage = "5" -> {"pattern_insights", "agents_needing_coaching", "errors"}
      [] stage = "6" -> {"coaching_plans", "errors"}
      [] stage = "7" -> {"executive_summary", "detailed_qa_report",
                         "processing_status", "errors"}
      [] OTHER -> {}

\* the fields a step changed; the first step of a run is measured from the
\* seed it copies
FieldsChanged ==
    LET before == IF pc = "ingest_and_risk_score" THEN initial_state ELSE state
    IN  {f \in DOMAIN state' : state'[f] # before[f]}

InputFields ==
    {"raw_transcripts", "campaign_name", "evaluation_period", "compliance_requirements"}

\* C34: every step changes only the fields its stage may write; no stage
\* changes raw_transcripts, campaign_name, evaluation_period or
\* compliance_requirements after seeding; stages 2 to 7 leave the two
\* counters and risk_scores alone, and stages 3 to 7 leave qa_evaluations
\* and average_scores alone
C34_StageFrames ==
    [][ /\ FieldsChanged \subseteq MayWrite(StageOfStep)
        /\ FieldsChanged \cap InputFields = {}
        /\ StageOfStep # "1" =>
             FieldsChanged \cap {"transcripts_processed", "transcripts_failed",
                                 "risk_scores"} = {}
        /\ StageOfStep \notin {"1", "2"} =>
             FieldsChanged \cap {"qa_evaluations", "average_scores"} = {} ]_vars

\* a run seeded with a campaign name and compliance requirements has ended
\* with every input field as supplied and a plan and both reports written
C34_Witness ==
    /\ pc = "done"
    /\ initial_state.compliance_requirements # <<>>
    /\ \A f \in InputFields : state[f] = initial_state[f]
    /\ state.risk_scores # initial_state.risk_scores
    /\ state.coaching_plans # <<>>
    /\ state.executive_summary # <<>>

(***************************************************************************)
(* The order of the parser's attempts                                      *)
(***************************************************************************)

\* the text without the white space at its two ends
Trimmed(text) ==
    LET solid == {k \in 1..Len(text) : text[k] # "s"}
    IN  IF solid = {} THEN <<>> ELSE SubSeq(text, Min(solid), Max(solid))

\* the content of the first fenced block whose opening fence is followed by
\* `tag` tokens of tag: from after the opening to the next fence; NoValue
\* when the text has no such block
FirstFenceContent(text, tag) ==
    LET Opens(k) ==
            /\ text[k] = "F"
            /\ tag = 1 => (k < Len(text) /\ text[k + 1] = "json")
            /\ \E c \in (k + tag + 1)..Len(text) : text[c] = "F"
        opens == {k \in 1..Len(text) : Opens(k)}
    IN  IF opens = {} THEN NoValue
        ELSE LET open == Min(opens)
                 close == Min({c \in (open + tag + 1)..Len(text) : text[c] = "F"})
             IN  <<Trimmed(SubSeq(text, open + tag + 1, close - 1))>>

\* the text from the first "{" to the last "}", NoValue when no "}" follows
\* the first "{"
GreedyBraces(text) ==
    LET opens == {k \in 1..Len(text) : text[k] = "{"}
        closes == {k \in 1..Len(text) : text[k] = "}"}
    IN  IF opens = {} \/ closes = {} \/ Max(closes) < Min(opens) THEN NoValue
        ELSE <<SubSeq(text, Min(opens), Max(closes))>>

\* the four attempts in their order, each the parse of what it extracts
Attempts(text) ==
    LET Try(found) == IF found = NoValue THEN None ELSE JsonLoads(found[1])
    IN  << JsonLoads(text), Try(FirstFenceContent(text, 1)),
           Try(FirstFenceContent(text, 0)), Try(GreedyBraces(text)) >>

\* the text given to the parser
RawText == Embed(arg.prefix, arg.record, arg.suffix, arg.how)

\* C35: the parser returns the value of the first of its four attempts, in
\* the order direct parse, first json fence, first fence, greedy braces,
\* that parses, and None, without raising, when none of them parses
C35_AttemptOrder ==
    pc = "returned" =>
        LET attempts == Attempts(RawText)
            parsing == {n \in 1..4 : attempts[n].ok}
        IN  IF parsing = {} THEN ret.embedded = None
            ELSE ret.embedded = attempts[Min(parsing)]

\* the parser returned the record of the json fence although the fence
\* before it holds another object
C35_Witness ==
    /\ pc = "returned"
    /\ arg.how = "two_fences"
    /\ Attempts(RawText)[2].ok /\ Attempts(RawText)[3].ok
    /\ Attempts(RawText)[2] # Attempts(RawText)[3]
    /\ ret.embedded = Attempts(RawText)[2]

\* the parser returned None: no attempt parsed
C35_WitnessNone ==
    /\ pc = "returned"
    /\ \A n \in 1..4 : ~Attempts(RawText)[n].ok
    /\ ret.embedded = None

\* the requirement set whose checks a call applies
RequirementSetUsed ==
    IF arg.requirement_set \in RequirementSetNames THEN arg.requirement_set
    ELSE "general"

\* C36: for a requirement-set key outside the four known ones the matcher
\* applies the checks of general, and the requirement_set field of its output
\* names the set that was used
C36_UnknownKeyUsesGeneral ==
    (pc = "returned" /\ arg.requirement_set \notin RequirementSetNames) =>
        /\ ret.results
             = MatcherResults(REQUIREMENT_SETS["general"], Lower(arg.transcript_text))
        /\ ret.total_checks = Len(RequirementsChecked("general"))
        /\ ret.requirement_set = RequirementSetUsed

\* the profile whose weights a call applies
ProfileUsed ==
    IF arg.weight_profile \in ProfileNames THEN arg.weight_profile ELSE "standard"

\* C37: for a profile name outside the three known ones the calculator
\* applies the standard weights, and the weight_profile_used field of its
\* output names the profile whose weights were used
C37_UnknownProfileUsesStandard ==
    (pc = "returned" /\ arg.weight_profile \notin ProfileNames) =>
        /\ \A i \in 1..Len(Dimensions) :
             ret.breakdown[Dimensions[i]].weight
                 = WEIGHT_PROFILES["standard"][Dimensions[i]]
        /\ ret.weight_profile_used = ProfileUsed

\* the risk scores for which the QA service is to be called: those with a
\* transcript and priority high or medium
HighOrMedium(st, risk) ==
    /\ HasTranscript(st, risk.interaction_id)
    /\ risk.priority_for_review \in {"high", "medium"}

\* the call a pass of a loop made for its item
CallFor(stage, item) == last_call.stage = stage /\ last_call.item = item

\* C38: every service operation is attempted exactly once per item and never
\* retried: each stage method runs at most once; the stage-1 pass over a
\* transcript makes one risk call and moves on; the stage-2 pass makes one
\* QA call when the risk score has a transcript and priority high or medium
\* and none otherwise; stage 5 makes one pattern call, none without
\* evaluations; the stage-6 loop makes one coaching call for every entry it
\* stands at, the one at which the stage ends included
C38_OneCallPerItem ==
    /\ \A stage \in Stages : executed[stage] <= 1
    /\ (pc \in {"ingest_loop", "ingest_sort"} /\ idx > 1) => CallFor("risk", idx - 1)
    /\ (pc \in {"deep_qa_loop", "deep_qa_averages"} /\ idx > 1) =>
          IF HighOrMedium(state, state.risk_scores[idx - 1])
          THEN CallFor("qa", idx - 1)
          ELSE last_call = NoCall
    /\ pc = "generate_coaching_plans" =>
          IF state.qa_evaluations = <<>> THEN last_call = NoCall
          ELSE CallFor("pattern", 0)
    /\ (pc \in {"coaching_loop", "compile_final_report"} /\ idx > 1) =>
          CallFor("coaching", idx - 1)
    /\ pc = "raised" => CallFor("coaching", idx)

\* a stage-2 pass is appending an evaluation
AppendsEvaluation ==
    pc = "deep_qa_loop" /\ Len(state'.qa_evaluations) = Len(state.qa_evaluations) + 1

\* the pass is one in which the QA service returned a valid result whose
\* severity is, ignoring case, the word critical, and that result is what
\* the pass appended
CriticalResultReturned ==
    LET risk == state.risk_scores[idx]
        t == TranscriptMap(state, risk.interaction_id)
    IN  /\ last_call'.stage = "qa" /\ last_call'.ok
        /\ \E res \in QAResults(t) :
              /\ QACallSucceeds(res, t)
              /\ res.compliance_severity # AbsentList
              /\ EqualsIgnoringCase(res.compliance_severity, Spelled(CRITICAL))
              /\ state' = AnalyzeRisk(state, risk, res)

\* C39: an evaluation the orchestrator synthesizes (no call, or a failed one)
\* has severity neither critical nor major; a critical evaluation is appended
\* only by a pass whose QA result was valid and carried that severity; and
\* in a run started from a default state the router returns
\* compliance_escalation only with such an evaluation in the state
C39_EscalationNeedsCriticalResult ==
    [][ /\ (AppendsEvaluation /\ ~last_call'.ok) =>
              LastEvaluation(state').compliance_severity \notin {CRITICAL, MAJOR}
        /\ (AppendsEvaluation /\ LastEvaluation(state').compliance_severity = CRITICAL)
              => CriticalResultReturned
        /\ (pc = "route_by_compliance" /\ StartedFromDefault
              /\ route_label' = "compliance_escalation") =>
              \E i \in 1..Len(state.qa_evaluations) :
                  state.qa_evaluations[i].compliance_severity = CRITICAL
      ]_vars

\* a run from a default state escalated although one of its QA calls failed
C39_Witness ==
    /\ StartedFromDefault
    /\ route_label = "compliance_escalation"
    /\ \E i \in 1..Len(state.qa_evaluations) :
          state.qa_evaluations[i].compliance_issues = <<"evaluation_failed">>

\* every QA call of a run from a default state failed and the router chose
\* the standard path
C39_WitnessFailuresOnly ==
    /\ StartedFromDefault
    /\ route_label = "standard_analysis"
    /\ state.qa_evaluations # <<>>
    /\ \A i \in 1..Len(state.qa_evaluations) :
          state.qa_evaluations[i].compliance_issues = <<"evaluation_failed">>

\* C40: a run leaves the caller's initial_state object unchanged: at the end
\* of the run its errors, risk_scores, qa_evaluations and coaching_plans hold
\* what they held at kickoff, so it can seed a second run from the same inputs
C40_InitialStateUnchanged ==
    RunEnded =>
        \A f \in SharedLists : InitialStateObject[f] = initial_state[f]

====
